---- MODULE Spec2Model ----
(***************************************************************************)
(* A model of the SleepIQ scraper: one run of scrapeSleepMetrics (session  *)
(* restore, login state machine, per-sleeper extraction, cleanup), the     *)
(* text heuristics of the metric extractor, and the tab-by-tab extraction  *)
(* of the biosignals messages.                                             *)
(*                                                                         *)
(* Texts (URLs, page text) are sequences of one-character strings, so that *)
(* String.includes and the regular expressions of the source are computed  *)
(* on the characters, as the source computes them.                         *)
(***************************************************************************)
EXTENDS Integers, Sequences, FiniteSets, TLC

(***************************************************************************)
(* Texts                                                                   *)
(***************************************************************************)

\* String.prototype.includes
Includes(s, sub) ==
    \E i \in 0..(Len(s) - Len(sub)) : \A k \in 1..Len(sub) : s[i + k] = sub[k]

UPPER ==
    <<"A", "B", "C", "D", "E", "F", "G", "H", "I", "J", "K", "L", "M",
      "N", "O", "P", "Q", "R", "S", "T", "U", "V", "W", "X", "Y", "Z">>
LOWER ==
    <<"a", "b", "c", "d", "e", "f", "g", "h", "i", "j", "k", "l", "m",
      "n", "o", "p", "q", "r", "s", "t", "u", "v", "w", "x", "y", "z">>

\* the lower case of a character (toLowerCase, and the i flag of the regular
\* expressions: letters compare by their lower case)
ToLower(c) ==
    IF \E i \in 1..Len(UPPER) : c = UPPER[i]
    THEN LOWER[CHOOSE i \in 1..Len(UPPER) : c = UPPER[i]]
    ELSE c

\* String.prototype.toLowerCase
ToLowerCase(s) == [i \in 1..Len(s) |-> ToLower(s[i])]

\* SLEEPIQ_URLS.BASE
BASE ==
    <<"h", "t", "t", "p", "s", ":", "/", "/", "s", "l", "e", "e", "p", "i", "q", ".", "s", "l", "e", "e", "p", "n", "u", "m", "b", "e", "r", ".", "c", "o", "m">>

\* window.location.pathname + window.location.hash of the routes of the SPA
PathHome ==
    <<"/">>
PathLogin ==
    <<"/", "#", "/", "l", "o", "g", "i", "n">>
PathAuthLogin ==
    <<"/", "#", "/", "a", "u", "t", "h", "/", "l", "o", "g", "i", "n">>
PathAuthVerify ==
    <<"/", "#", "/", "a", "u", "t", "h", "/", "v", "e", "r", "i", "f", "y">>
PathSleep ==
    <<"/", "#", "/", "p", "a", "g", "e", "s", "/", "s", "l", "e", "e", "p">>
PathSleepSession ==
    <<"/", "#", "/", "p", "a", "g", "e", "s", "/", "s", "l", "e", "e", "p",
      "/", "d", "e", "t", "a", "i", "l", "s", "/", "s", "l", "e", "e", "p",
      "-", "s", "e", "s", "s", "i", "o", "n">>
PathBiosignals ==
    <<"/", "#", "/", "p", "a", "g", "e", "s", "/", "s", "l", "e", "e", "p",
      "/", "d", "e", "t", "a", "i", "l", "s", "/", "b", "i", "o", "s", "i",
      "g", "n", "a", "l", "s">>
PathSelect ==
    <<"/", "#", "/", "s", "e", "l", "e", "c", "t", "-", "d", "e", "f", "a", "u", "l", "t", "-", "s", "l", "e", "e", "p", "e", "r">>

\* the needles of the URL tests
S_login ==
    <<"l", "o", "g", "i", "n">>
S_auth ==
    <<"a", "u", "t", "h">>
S_slash_login ==
    <<"/", "l", "o", "g", "i", "n">>
S_auth_login ==
    <<"a", "u", "t", "h", "/", "l", "o", "g", "i", "n">>
S_pages_sleep ==
    <<"p", "a", "g", "e", "s", "/", "s", "l", "e", "e", "p">>
S_dashboard ==
    <<"d", "a", "s", "h", "b", "o", "a", "r", "d">>
S_details_biosignals ==
    <<"#", "/", "p", "a", "g", "e", "s", "/", "s", "l", "e", "e", "p", "/",
      "d", "e", "t", "a", "i", "l", "s", "/", "b", "i", "o", "s", "i", "g",
      "n", "a", "l", "s">>
S_biosignals ==
    <<"b", "i", "o", "s", "i", "g", "n", "a", "l", "s">>
S_sleep_session ==
    <<"s", "l", "e", "e", "p", "-", "s", "e", "s", "s", "i", "o", "n">>
S_select ==
    <<"s", "e", "l", "e", "c", "t", "-", "d", "e", "f", "a", "u", "l", "t", "-", "s", "l", "e", "e", "p", "e", "r">>

\* The routes the document can be on, by name (the state keeps the name).
Routes ==
    {"home", "login", "authLogin", "authVerify", "sleep", "select",
     "sleepSession", "biosignals"}

PathOf(r) ==
    CASE r = "home" -> PathHome
      [] r = "login" -> PathLogin
      [] r = "authLogin" -> PathAuthLogin
      [] r = "authVerify" -> PathAuthVerify
      [] r = "sleep" -> PathSleep
      [] r = "select" -> PathSelect
      [] r = "sleepSession" -> PathSleepSession
      [] r = "biosignals" -> PathBiosignals

\* page.url(): "https://sleepiq.sleepnumber.com/" is the home page
UrlOf(r) == BASE \o PathOf(r)

(***************************************************************************)
(* The document shown by the page: its route and whether it holds          *)
(* input[type="email"], input[type="password"].  The site decides what a   *)
(* navigation lands on (redirects) and what is shown after a delay.        *)
(***************************************************************************)
DocStates ==
    { [path |-> "home", form |-> FALSE],
      [path |-> "login", form |-> TRUE],
      [path |-> "login", form |-> FALSE],
      [path |-> "authLogin", form |-> TRUE],
      [path |-> "authLogin", form |-> FALSE],
      [path |-> "authVerify", form |-> TRUE],
      [path |-> "sleep", form |-> FALSE],
      [path |-> "select", form |-> FALSE] }

BlankDoc == [path |-> "home", form |-> FALSE]

(***************************************************************************)
(* One run of scrapeSleepMetrics                                           *)
(***************************************************************************)

\* maxAge of loadSession: 24 hours in milliseconds
MaxAge == 24 * 60 * 60 * 1000

\* maxWaitTime and the step of the redirect polling of performLogin
MaxWaitTime == 20000
PollStep == 2000

\* Date.now() of the run
Now == 3 * MaxAge

\* The ages of the stored record that the runs start with.
Ages == {1000, MaxAge - 1, MaxAge, MaxAge + 1, 2 * MaxAge}

\* The content of the session file: absent, unparsable, or a SessionData
NoFile == [kind |-> "none", timestamp |-> 0]
CorruptFile == [kind |-> "corrupt", timestamp |-> 0]
SessionData(t) == [kind |-> "record", timestamp |-> t]

\* The seven required keys of SleepMetrics
Fields ==
    {"30-average", "score", "all-time-best", "message",
     "heartRateMsg", "heartRateVariabilityMsg", "breathRateMsg"}
MetricFields == {"30-average", "score", "all-time-best"}
BioFields == {"heartRateMsg", "heartRateVariabilityMsg", "breathRateMsg"}

\* the sleepers, in the order of the loop
Sleepers == <<"rafa", "miki">>

VARIABLES
    pc,               \* the statement the run is at
    browser,          \* let browser: "null", "open", "closed"
    page,             \* let page: "null", "open", "closed"
    doc,              \* the document the page shows
    sessionFile,      \* the content of .sessions/sleepiq-session.json
    sessionRestored,  \* const sessionRestored
    isLoggedIn,       \* const isLoggedIn (line 40): "unset", "true", "false"
    err,              \* the error being thrown inside the try block
    pending,          \* the completion of try/catch that finally holds back
    outcome,          \* how the call ended: "running", "returned", "raised:..."
    loginPageInfo,    \* performLogin: the post-submit snapshot
    redirectWaitTime, \* performLogin: the polling clock
    lastInfo,         \* performLogin: the last page inspection made
    sleeperIdx,       \* extractSleepDataForBothSleepersEnhanced: loop index
    sleepData,        \* extractSleepDataForBothSleepersEnhanced: sleepData
    sleepMetrics,     \* extractSleepDataOrchestrated: sleepMetrics
    hist              \* history of the run, for stating the properties

runVars ==
    <<pc, browser, page, doc, sessionFile, sessionRestored, isLoggedIn, err,
      pending, outcome, loginPageInfo, redirectWaitTime, lastInfo, sleeperIdx,
      sleepData, sleepMetrics, hist>>

VARIABLES
    metricsPc,        \* extractSleepData: the statement the call is at
    dashboard,        \* extractSleepData: the document of the dashboard page
    dashboardData     \* extractSleepData: thirtyDayAvg, sleepScore, allTimeBest

metricsVars == <<metricsPc, dashboard, dashboardData>>

VARIABLES
    bioPc,            \* extractBiosignalsMessagesImproved: the statement it is at
    bioTab,           \* the field being extracted, an index of BioTabs
    bioPage,          \* the document of the biosignals page
    bioResults,       \* const results
    bioNav,           \* originalUrl, the url of the page, currentUrl (as routes)
    bioLog            \* what the flow did, in order, for stating the properties

bioVars == <<bioPc, bioTab, bioPage, bioResults, bioNav, bioLog>>

VARIABLES
    msgPc,            \* extractSleepSessionMessageImproved: the statement it is at
    msgPage,          \* the document of the sleep session page
    msgNav,           \* originalUrl, the url of the page, currentUrl (as routes)
    msgMessage,       \* what the call returns
    msgLog            \* what the flow did, in order, for stating the properties

msgVars == <<msgPc, msgPage, msgNav, msgMessage, msgLog>>

VARIABLES
    entryPc,          \* an invocation from outside: the statement it is at
    call,             \* the entry point invoked and what it is invoked with
    store,            \* the session records kept between invocations, by key
    reply             \* what the invocation did and answered

entryVars == <<entryPc, call, store, reply>>

VARIABLES
    submitPc,         \* performLogin, submitting the form: the statement it is at
    submitPage,       \* the login page: what the strategies can find on it
    buttonClicked,    \* let buttonClicked
    submitIdx,        \* the place of selector in buttonSelectors
    attempted,        \* the strategies that were executed, in order
    submitted         \* the strategies that acted on the form, in order

submitVars == <<submitPc, submitPage, buttonClicked, submitIdx, attempted, submitted>>

VARIABLES
    retryPc,          \* withRetries: the statement the call is at
    retryCall,        \* who calls withRetries, and the options it gets
    attempt,          \* let attempt
    retryLog,         \* the calls of fn and the delays, in order
    retryResult       \* what withRetries returned or raised

retryVars == <<retryPc, retryCall, attempt, retryLog, retryResult>>

VARIABLES
    selPc,            \* selectSleeper: the statement the call is at
    selName,          \* sleeperName
    selPage,          \* the dashboard: its profile control and the active profile
    selResult         \* what selectSleeper returned or raised

selVars == <<selPc, selName, selPage, selResult>>

VARIABLES
    textPc,           \* how many times the clean-up was applied
    textIn,           \* the text the clean-up is applied to
    textOut           \* the results of the applications, in order

textVars == <<textPc, textIn, textOut>>

helperVars == <<submitVars, retryVars, selVars, textVars>>

NoInfo == [path |-> "home", form |-> FALSE]

\* no error of the login was built
NoErrorTexts == [found |-> {}, included |-> {}]

\* no text of the auth page was read
NoAuthText == [phrase |-> <<>>, at |-> 0]

HistInit ==
    [ load |-> "none",     \* how loadSession ended: absent, expired, failedRead,
                           \* failedReplay, restored, raised
      login |-> "none",    \* performLogin: none, running, returned, raised
      saveCalls |-> 0,     \* calls of saveSession
      save |-> "none",     \* how saveSession ended: none, saved, failed
      closeCalls |-> <<>>,   \* the calls of close made, in order
      authText |-> NoAuthText,  \* the text authPageDebug read on the auth page
      errorTexts |-> NoErrorTexts,  \* the texts loginPageInfo found on the page
                             \* and those the error message of the login holds
      steps |-> <<>> ]       \* the steps of the extraction that ended, in order

RunInit ==
    /\ pc = "launch"
    /\ browser = "null"
    /\ page = "null"
    /\ doc = BlankDoc
    /\ sessionFile \in {NoFile, CorruptFile} \cup {SessionData(Now - a) : a \in Ages}
    /\ sessionRestored = FALSE
    /\ isLoggedIn = "unset"
    /\ err = "none"
    /\ pending = "none"
    /\ outcome = "running"
    /\ loginPageInfo = NoInfo
    /\ redirectWaitTime = 0
    /\ lastInfo = NoInfo
    /\ sleeperIdx = 0
    /\ sleepData = <<>>
    /\ sleepMetrics = <<>>
    /\ hist = HistInit

\* throw inside the try block of scrapeSleepMetrics: control goes to its catch
Throw(e) ==
    /\ pc' = "catch"
    /\ err' = e

(* launchBrowser *)
LaunchBrowser ==
    /\ pc = "launch"
    /\ \/ /\ browser' = "open"
          /\ pc' = "newPage"
          /\ err' = err
       \/ /\ Throw("launch")
          /\ UNCHANGED browser
    /\ UNCHANGED <<page, doc, sessionFile, sessionRestored, isLoggedIn, pending,
                   outcome, loginPageInfo, redirectWaitTime, lastInfo,
                   sleeperIdx, sleepData, sleepMetrics, hist>>
    /\ UNCHANGED <<metricsVars, bioVars, msgVars, entryVars, helperVars>>

(* newPage *)
NewPage ==
    /\ pc = "newPage"
    /\ \/ /\ page' = "open"
          /\ pc' = "loadSession"
          /\ err' = err
       \/ /\ Throw("newPage")
          /\ UNCHANGED page
    /\ UNCHANGED <<browser, doc, sessionFile, sessionRestored, isLoggedIn,
                   pending, outcome, loginPageInfo, redirectWaitTime, lastInfo,
                   sleeperIdx, sleepData, sleepMetrics, hist>>
    /\ UNCHANGED <<metricsVars, bioVars, msgVars, entryVars, helperVars>>

(***************************************************************************)
(* SessionManager                                                          *)
(***************************************************************************)

\* a faulty variant: the expiry test with twice the age
SessionExpiredLax(timestamp) == Now - timestamp > 2 * MaxAge

\* sessionAge > maxAge
SessionExpired(timestamp) == Now - timestamp > MaxAge

\* clearSession: unlink, and no error when the file is absent
ClearedFile == NoFile

\* a faulty variant: the catch block of loadSession without clearSession
LoadSessionCatchKeeps(replayed) ==
    /\ sessionFile' = sessionFile
    /\ sessionRestored' = FALSE
    /\ pc' = "needLogin"
    /\ err' = err
    /\ hist' = [hist EXCEPT !.load = IF replayed THEN "failedReplay"
                                                   ELSE "failedRead"]

\* the catch block of loadSession: clear the record, return false
LoadSessionCatch(replayed) ==
    /\ sessionFile' = ClearedFile
    /\ sessionRestored' = FALSE
    /\ pc' = "needLogin"
    /\ err' = err
    /\ hist' = [hist EXCEPT !.load = IF replayed THEN "failedReplay"
                                                   ELSE "failedRead"]

\* the record is too old: clear it, return false
LoadSessionExpired ==
    /\ sessionFile' = ClearedFile
    /\ sessionRestored' = FALSE
    /\ pc' = "needLogin"
    /\ err' = err
    /\ hist' = [hist EXCEPT !.load = "expired"]

\* loadSession, up to the expiry test: access, readFile, JSON.parse
LoadSessionRead ==
    /\ pc = "loadSession"
    /\ \/ /\ sessionFile.kind = "none"
          /\ sessionRestored' = FALSE
          /\ pc' = "needLogin"
          /\ hist' = [hist EXCEPT !.load = "absent"]
          /\ UNCHANGED <<sessionFile, err>>
       \/ /\ sessionFile.kind = "corrupt"
          /\ LoadSessionCatch(FALSE)
       \/ /\ sessionFile.kind = "record"
          /\ \/ LoadSessionCatch(FALSE)     \* readFile fails
             \/ /\ SessionExpired(sessionFile.timestamp)
                /\ LoadSessionExpired
             \/ /\ ~SessionExpired(sessionFile.timestamp)
                /\ pc' = "loadReplay"
                /\ UNCHANGED <<sessionFile, sessionRestored, err, hist>>
    /\ UNCHANGED <<browser, page, doc, isLoggedIn, pending, outcome,
                   loginPageInfo, redirectWaitTime, lastInfo, sleeperIdx,
                   sleepData, sleepMetrics>>
    /\ UNCHANGED <<metricsVars, bioVars, msgVars, entryVars, helperVars>>

\* loadSession, the replay: goto the site, setCookie, storage, goto the saved
\* url, settle delay.  Any of them may throw.
LoadSessionReplay ==
    /\ pc = "loadReplay"
    /\ doc' \in DocStates
    /\ \/ /\ sessionRestored' = TRUE
          /\ pc' = "check"
          /\ hist' = [hist EXCEPT !.load = "restored"]
          /\ UNCHANGED <<sessionFile, err>>
       \/ LoadSessionCatch(TRUE)
    /\ UNCHANGED <<browser, page, isLoggedIn, pending, outcome, loginPageInfo,
                   redirectWaitTime, lastInfo, sleeperIdx, sleepData,
                   sleepMetrics>>
    /\ UNCHANGED <<metricsVars, bioVars, msgVars, entryVars, helperVars>>

\* isLoggedIn(page): evalOk is whether page.evaluate returned
IsLoggedIn(d, evalOk) ==
    IF ~evalOk THEN FALSE
    ELSE LET currentUrl == UrlOf(d.path)
             isOnLoginPage == \/ Includes(currentUrl, S_login)
                              \/ Includes(currentUrl, S_auth)
                              \/ d.form
         IN ~isOnLoginPage

(***************************************************************************)
(* scrapeSleepMetrics: the restored-session branch                         *)
(***************************************************************************)

\* const isLoggedIn = await sessionManager.isLoggedIn(page); if (isLoggedIn)
CheckRestored ==
    /\ pc = "check"
    /\ \E evalOk \in BOOLEAN :
         LET r == IsLoggedIn(doc, evalOk) IN
         /\ isLoggedIn' = IF r THEN "true" ELSE "false"
         /\ pc' = IF r THEN "dashboard" ELSE "clear"
    /\ UNCHANGED <<browser, page, doc, sessionFile, sessionRestored, err,
                   pending, outcome, loginPageInfo, redirectWaitTime, lastInfo,
                   sleeperIdx, sleepData, sleepMetrics, hist>>
    /\ UNCHANGED <<metricsVars, bioVars, msgVars, entryVars, helperVars>>

\* page.goto(DASHBOARD), the 3 s delay, finalUrl.includes('select-default-sleeper')
GotoDashboard ==
    /\ pc = "dashboard"
    /\ \/ /\ doc' \in DocStates
          /\ pc' = IF Includes(UrlOf(doc'.path), S_select)
                   THEN "interstitial" ELSE "needLogin"
          /\ err' = err
       \/ /\ Throw("navigation")
          /\ UNCHANGED doc
    /\ UNCHANGED <<browser, page, sessionFile, sessionRestored, isLoggedIn,
                   pending, outcome, loginPageInfo, redirectWaitTime, lastInfo,
                   sleeperIdx, sleepData, sleepMetrics, hist>>
    /\ UNCHANGED <<metricsVars, bioVars, msgVars, entryVars, helperVars>>

\* the sleeper selection page: click, delay, goto the dashboard, delay; every
\* error is caught and logged
Interstitial ==
    /\ pc = "interstitial"
    /\ \/ doc' \in DocStates      \* clicked, and navigated again
       \/ doc' = doc              \* nothing to click, or an error
    /\ pc' = "needLogin"
    /\ UNCHANGED <<browser, page, sessionFile, sessionRestored, isLoggedIn, err,
                   pending, outcome, loginPageInfo, redirectWaitTime, lastInfo,
                   sleeperIdx, sleepData, sleepMetrics, hist>>
    /\ UNCHANGED <<metricsVars, bioVars, msgVars, entryVars, helperVars>>

\* else: 'Session restoration failed, proceeding with login'; clearSession()
ClearSession ==
    /\ pc = "clear"
    /\ sessionFile' = ClearedFile
    /\ pc' = "needLogin"
    /\ UNCHANGED <<browser, page, doc, sessionRestored, isLoggedIn, err,
                   pending, outcome, loginPageInfo, redirectWaitTime, lastInfo,
                   sleeperIdx, sleepData, sleepMetrics, hist>>
    /\ UNCHANGED <<metricsVars, bioVars, msgVars, entryVars, helperVars>>

\* !sessionRestored || !(await sessionManager.isLoggedIn(page))
NeedLogin(restored, logged) == ~restored \/ ~logged

\* a faulty variant: saveSession placed after the block instead of inside it
AfterNeedLoginSaveOutside(need) == IF need THEN "login_goto" ELSE "save"

\* if (need) { performLogin; saveSession } and then the 3 s delay: saveSession
\* is inside the block, after performLogin
AfterNeedLogin(need) == IF need THEN "login_goto" ELSE "settle"

\* if (!sessionRestored || !(await sessionManager.isLoggedIn(page)))
CheckNeedLogin ==
    /\ pc = "needLogin"
    /\ \E evalOk \in BOOLEAN :
         \* isLoggedIn is called only when sessionRestored holds
         /\ (~sessionRestored => evalOk)
         /\ LET need == NeedLogin(sessionRestored, IsLoggedIn(doc, evalOk)) IN
            /\ pc' = AfterNeedLogin(need)
            /\ hist' = [hist EXCEPT !.login = IF need THEN "running" ELSE @]
    /\ UNCHANGED <<browser, page, doc, sessionFile, sessionRestored, isLoggedIn,
                   err, pending, outcome, loginPageInfo, redirectWaitTime,
                   lastInfo, sleeperIdx, sleepData, sleepMetrics>>
    /\ UNCHANGED <<metricsVars, bioVars, msgVars, entryVars, helperVars>>

(***************************************************************************)
(* performLogin                                                            *)
(***************************************************************************)

\* the locals of performLogin are gone when it returns or throws
LoginLocalsGone ==
    /\ loginPageInfo' = NoInfo
    /\ redirectWaitTime' = 0
    /\ lastInfo' = NoInfo

\* an error leaves performLogin (it has no try block of its own around these
\* statements) and reaches the catch block of scrapeSleepMetrics
LoginRaise(e) ==
    /\ Throw(e)
    /\ hist' = [hist EXCEPT !.login = "raised"]
    /\ LoginLocalsGone

\* page.goto(LOGIN); clearing the browser data is wrapped in try/catch
LoginGoto ==
    /\ pc = "login_goto"
    /\ \/ /\ doc' \in DocStates
          /\ pc' = "login_form"
          /\ UNCHANGED <<err, hist, loginPageInfo, redirectWaitTime, lastInfo>>
       \/ /\ LoginRaise("navigation")
          /\ UNCHANGED doc
    /\ UNCHANGED <<browser, page, sessionFile, sessionRestored, isLoggedIn,
                   pending, outcome, sleeperIdx, sleepData, sleepMetrics>>
    /\ UNCHANGED <<metricsVars, bioVars, msgVars, entryVars, helperVars>>

\* waitForSelector(email input), waitForFunction(inputs enabled), clear and
\* type both fields, dispatch the input events
LoginForm ==
    /\ pc = "login_form"
    /\ \/ /\ doc' \in {d \in DocStates : d.form}
          /\ pc' = "login_submit"
          /\ UNCHANGED <<err, hist, loginPageInfo, redirectWaitTime, lastInfo>>
       \/ /\ doc' \in DocStates
          /\ LoginRaise("form")      \* timeout, or evaluate/click/type threw
    /\ UNCHANGED <<browser, page, sessionFile, sessionRestored, isLoggedIn,
                   pending, outcome, sleeperIdx, sleepData, sleepMetrics>>
    /\ UNCHANGED <<metricsVars, bioVars, msgVars, entryVars, helperVars>>

\* the submit strategies: the click strategies are wrapped in try/catch, the
\* Enter key on the password field is not
LoginSubmit ==
    /\ pc = "login_submit"
    /\ \/ /\ pc' = "login_wait"
          /\ UNCHANGED <<err, hist, loginPageInfo, redirectWaitTime, lastInfo>>
       \/ LoginRaise("submit")
    /\ UNCHANGED <<browser, page, doc, sessionFile, sessionRestored, isLoggedIn,
                   pending, outcome, sleeperIdx, sleepData, sleepMetrics>>
    /\ UNCHANGED <<metricsVars, bioVars, msgVars, entryVars, helperVars>>

\* Promise.race of the three waits (errors caught), then the 2 s delay
LoginWait ==
    /\ pc = "login_wait"
    /\ doc' \in DocStates
    /\ pc' = "login_inspect"
    /\ UNCHANGED <<browser, page, sessionFile, sessionRestored, isLoggedIn, err,
                   pending, outcome, loginPageInfo, redirectWaitTime, lastInfo,
                   sleeperIdx, sleepData, sleepMetrics, hist>>
    /\ UNCHANGED <<metricsVars, bioVars, msgVars, entryVars, helperVars>>

\* currentPath.includes('auth/login') && hasLoginForm
OnAuthLogin(info) ==
    Includes(PathOf(info.path), S_auth_login) /\ info.form

\* const isStillOnLogin = hasLoginForm &&
\*     (currentPath.includes('/login') || currentPath.includes('auth'))
IsStillOnLogin(info) ==
    /\ info.form
    /\ \/ Includes(PathOf(info.path), S_slash_login)
       \/ Includes(PathOf(info.path), S_auth)

\* the branch taken on loginPageInfo: if (auth/login && form) {poll}
\* else if (isStillOnLogin) {throw}; otherwise 'Login successful'
AfterInspect(info) ==
    IF OnAuthLogin(info) THEN "login_poll"
    ELSE IF IsStillOnLogin(info) THEN "login_failed"
    ELSE "login_success"

\* the error texts and the red-styled texts that the page shows after the
\* submit
PageTexts ==
    [errorMessages : {{}, {"Invalid email or password"}},
     redElements : {{}, {"Please try again"}}]

\* const loginPageInfo = await page.evaluate(...)
LoginInspect ==
    /\ pc = "login_inspect"
    /\ \/ /\ \E texts \in PageTexts :
                loginPageInfo' = [path |-> doc.path, form |-> doc.form,
                                  errorMessages |-> texts.errorMessages,
                                  redElements |-> texts.redElements]
          /\ lastInfo' = doc
          /\ redirectWaitTime' = 0
          /\ pc' = AfterInspect(doc)
          /\ UNCHANGED <<err, hist>>
       \/ LoginRaise("evaluate")
    /\ UNCHANGED <<browser, page, doc, sessionFile, sessionRestored, isLoggedIn,
                   pending, outcome, sleeperIdx, sleepData, sleepMetrics>>
    /\ UNCHANGED <<metricsVars, bioVars, msgVars, entryVars, helperVars>>

\* a faulty variant: the loop is left only when the path has no
\* 'auth/login' or the time is up
AfterPollPathOnly(info, waited) ==
    IF \/ ~Includes(PathOf(info.path), S_auth_login)
       \/ ~(waited < MaxWaitTime)
    THEN "login_recheck" ELSE "login_poll"

\* if (!currentPageInfo.currentPath.includes('auth/login')) break;
\* if (!currentPageInfo.hasLoginForm) break; and the loop test
\* redirectWaitTime < maxWaitTime
AfterPoll(info, waited) ==
    IF \/ ~Includes(PathOf(info.path), S_auth_login)
       \/ ~info.form
       \/ ~(waited < MaxWaitTime)
    THEN "login_recheck" ELSE "login_poll"

\* one round of while (redirectWaitTime < maxWaitTime): the 2 s delay, the
\* inspection, the two breaks, and the loop test
LoginPoll ==
    /\ pc = "login_poll"
    /\ redirectWaitTime < MaxWaitTime
    /\ doc' \in DocStates
    /\ \/ /\ redirectWaitTime' = redirectWaitTime + PollStep
          /\ lastInfo' = doc'
          /\ pc' = AfterPoll(doc', redirectWaitTime')
          /\ UNCHANGED <<err, hist, loginPageInfo>>
       \/ LoginRaise("evaluate")
    /\ UNCHANGED <<browser, page, sessionFile, sessionRestored, isLoggedIn,
                   pending, outcome, sleeperIdx, sleepData, sleepMetrics>>
    /\ UNCHANGED <<metricsVars, bioVars, msgVars, entryVars, helperVars>>

\* stillOnAuthLogin = updatedPageInfo.hasLoginForm &&
\*     updatedPageInfo.currentPath.includes('auth/login')
StillOnAuthLogin(info) ==
    info.form /\ Includes(PathOf(info.path), S_auth_login)

\* const updatedPageInfo = await page.evaluate(...); if (stillOnAuthLogin)
LoginRecheck ==
    /\ pc = "login_recheck"
    /\ \/ /\ lastInfo' = doc
          /\ pc' = IF StillOnAuthLogin(doc) THEN "login_stuck"
                   ELSE "login_success"
          /\ UNCHANGED <<err, hist, loginPageInfo, redirectWaitTime>>
       \/ LoginRaise("evaluate")
    /\ UNCHANGED <<browser, page, doc, sessionFile, sessionRestored, isLoggedIn,
                   pending, outcome, sleeperIdx, sleepData, sleepMetrics>>
    /\ UNCHANGED <<metricsVars, bioVars, msgVars, entryVars, helperVars>>

\* bodyText: document.body.innerText.substring(0, 500)
BodyLimit == 500

\* the needles of the 2FA test
S_verification ==
    <<"v", "e", "r", "i", "f", "i", "c", "a", "t", "i", "o", "n">>
S_2fa ==
    <<"2", "f", "a">>
S_code ==
    <<"c", "o", "d", "e">>

\* phrases of an auth page
W_SignIn ==
    <<"S", "i", "g", "n", " ", "i", "n", " ", "t", "o", " ", "y", "o", "u",
      "r", " ", "a", "c", "c", "o", "u", "n", "t">>
W_Verification ==
    <<"V", "e", "r", "i", "f", "i", "c", "a", "t", "i", "o", "n", " ", "r",
      "e", "q", "u", "i", "r", "e", "d">>
W_2FA ==
    <<"2", "F", "A">>
W_Code ==
    <<"E", "n", "t", "e", "r", " ", "t", "h", "e", " ", "c", "o", "d", "e",
      " ", "w", "e", " ", "s", "e", "n", "t", " ", "y", "o", "u">>

(* The text of the auth page: one phrase and the place of its first        *)
(* character in document.body.innerText; the rest of the text holds none   *)
(* of the needles.                                                         *)
AuthPlaces == {1, BodyLimit - 2, BodyLimit + 100}
AuthTexts == [phrase : {W_SignIn, W_Verification, W_2FA, W_Code}, at : AuthPlaces]

\* authPageDebug.bodyText: what the first BodyLimit characters keep of the
\* phrase
BodyText(text) ==
    IF text.at > BodyLimit THEN <<>>
    ELSE IF text.at + Len(text.phrase) - 1 <= BodyLimit THEN text.phrase
    ELSE SubSeq(text.phrase, 1, BodyLimit - text.at + 1)

\* t.toLowerCase() includes 'verification', '2fa' or 'code'
HasVocabulary(t) ==
    \/ Includes(ToLowerCase(t), S_verification)
    \/ Includes(ToLowerCase(t), S_2fa)
    \/ Includes(ToLowerCase(t), S_code)

\* the error thrown when the login is stuck on the auth page
AuthError(text) ==
    IF HasVocabulary(BodyText(text)) THEN "twoFactor" ELSE "stuckOnAuth"

\* the page texts of loginPageInfo
FoundTexts(info) == info.errorMessages \cup info.redElements

\* the page texts in the message of the errors of the stuck auth page:
\* 'Login requires 2FA or verification code - ...' and
\* `Login failed - stuck on auth page: ${authPageDebug.path}. ...`
StuckTexts(info) == {}

\* the page texts in the message of the error of the login page:
\* ' - Error messages: ' + errorMessages.join(', ') and
\* ' - Red text found: ' + redElements.join(', ')
LoginFailedTexts(info) == info.errorMessages \cup info.redElements

\* authPageDebug, then the 2FA error when the body text has the vocabulary
\* ('verification', '2fa', 'code'), else the stuck-on-auth-page error
LoginStuck ==
    /\ pc = "login_stuck"
    /\ \/ \E text \in AuthTexts :
            /\ Throw(AuthError(text))
            /\ hist' = [hist EXCEPT !.login = "raised", !.authText = text,
                                    !.errorTexts =
                                        [found |-> FoundTexts(loginPageInfo),
                                         included |-> StuckTexts(loginPageInfo)]]
            /\ LoginLocalsGone
       \/ LoginRaise("evaluate")
    /\ UNCHANGED <<browser, page, doc, sessionFile, sessionRestored, isLoggedIn,
                   pending, outcome, sleeperIdx, sleepData, sleepMetrics>>
    /\ UNCHANGED <<metricsVars, bioVars, msgVars, entryVars, helperVars>>

\* else if (isStillOnLogin) { ...; throw new Error('Login failed ...') }
LoginFailed ==
    /\ pc = "login_failed"
    /\ Throw("loginFailed")
    /\ hist' = [hist EXCEPT !.login = "raised",
                            !.errorTexts =
                                [found |-> FoundTexts(loginPageInfo),
                                 included |-> LoginFailedTexts(loginPageInfo)]]
    /\ LoginLocalsGone
    /\ UNCHANGED <<browser, page, doc, sessionFile, sessionRestored, isLoggedIn,
                   pending, outcome, sleeperIdx, sleepData, sleepMetrics>>
    /\ UNCHANGED <<metricsVars, bioVars, msgVars, entryVars, helperVars>>

\* 'Login successful'; goto the dashboard unless the url is already there
LoginSuccess ==
    /\ pc = "login_success"
    /\ LET currentUrlAfterLogin == UrlOf(doc.path)
           there == \/ Includes(currentUrlAfterLogin, S_pages_sleep)
                    \/ Includes(currentUrlAfterLogin, S_dashboard)
       IN \/ /\ IF there THEN doc' = doc ELSE doc' \in DocStates
             /\ pc' = "save"
             /\ hist' = [hist EXCEPT !.login = "returned"]
             /\ LoginLocalsGone
             /\ err' = err
          \/ /\ ~there
             /\ LoginRaise("navigation")
             /\ UNCHANGED doc
    /\ UNCHANGED <<browser, page, sessionFile, sessionRestored, isLoggedIn,
                   pending, outcome, sleeperIdx, sleepData, sleepMetrics>>
    /\ UNCHANGED <<metricsVars, bioVars, msgVars, entryVars, helperVars>>

(***************************************************************************)
(* scrapeSleepMetrics: after the login                                     *)
(***************************************************************************)

\* a faulty variant: the error of a step of saveSession leaves the call
AfterSaveErrorRaised == "catch"

\* saveSession's catch block: the error is logged (logger.warn) and the call
\* returns, so the run goes on with the statement after it
AfterSaveError == "settle"

\* saveSession: mkdir, cookies, storage, writeFile inside try/catch; an error
\* is logged and the file stays as it was
SaveSession ==
    /\ pc = "save"
    /\ \/ /\ sessionFile' = SessionData(Now)
          /\ hist' = [hist EXCEPT !.saveCalls = @ + 1, !.save = "saved"]
          /\ pc' = "settle"
          /\ err' = err
       \/ /\ sessionFile' = sessionFile
          /\ hist' = [hist EXCEPT !.saveCalls = @ + 1, !.save = "failed"]
          /\ pc' = AfterSaveError
          /\ err' = IF AfterSaveError = "catch" THEN "saveSession" ELSE err
    /\ UNCHANGED <<browser, page, doc, sessionRestored, isLoggedIn,
                   pending, outcome, loginPageInfo, redirectWaitTime, lastInfo,
                   sleeperIdx, sleepData, sleepMetrics>>
    /\ UNCHANGED <<metricsVars, bioVars, msgVars, entryVars, helperVars>>

(***************************************************************************)
(* extractSleepDataForBothSleepersEnhanced, extractSleepDataOrchestrated   *)
(***************************************************************************)

\* a faulty variant: an initial structure that lacks one of the keys
EmptyMetricsShort == [f \in Fields \ {"breathRateMsg"} |-> ""]

\* A field is "" or holds a text; "v" stands for an extracted text.
\* The initial structure: the seven keys with empty strings.
EmptyMetrics == [f \in Fields |-> ""]

\* What one stage finds on the page: the fields it finds are non-empty.
MetricsFound == {{}, {"score"}, MetricFields}
MessageFound == {{}, {"message"}}
BioFound == {{}, {"heartRateMsg"}, BioFields}

\* the assignments sleepMetrics[f] = data[f] of one stage
Assigned(m, stage, found) ==
    [f \in DOMAIN m \cup stage |->
        IF f \in stage THEN (IF f \in found THEN "v" ELSE "") ELSE m[f]]

\* requiredFields.forEach: a field that is not a string becomes String(x || '')
Validated(m) ==
    [f \in DOMAIN m \cup Fields |-> IF f \in DOMAIN m THEN m[f] ELSE ""]

\* extractSleepData stores its debugging record (page text, url, time) after
\* the numbers, unless an error that it catches ended it before: then it
\* returns what it has, here nothing
DebugStored == {[found |-> found, stored |-> TRUE] : found \in MetricsFound}
                   \cup {[found |-> {}, stored |-> FALSE]}

\* if (dashboardData.raw) sleepMetrics.raw = dashboardData.raw
WithDebug(m, stored) ==
    IF stored
    THEN [f \in DOMAIN m \cup {"raw"} |-> IF f = "raw" THEN "debug" ELSE m[f]]
    ELSE m

\* sleepData[sleeper].raw = { error: ... }
WithError(m) ==
    [f \in DOMAIN m \cup {"raw"} |-> IF f = "raw" THEN "error" ELSE m[f]]

\* the document is driven by the extraction flows from here on; the run does
\* not read it again
ExtractionDoc == [path |-> "sleep", form |-> FALSE]

\* the 3 s delay, the debug screenshot (its errors are caught), and the
\* initial sleepData of extractSleepDataForBothSleepersEnhanced
ExtractStart ==
    /\ pc = "settle"
    /\ doc' = ExtractionDoc
    /\ sleepData' = [s \in {Sleepers[i] : i \in 1..Len(Sleepers)} |-> EmptyMetrics]
    /\ sleeperIdx' = 1
    /\ pc' = "select"
    /\ UNCHANGED <<browser, page, sessionFile, sessionRestored, isLoggedIn, err,
                   pending, outcome, loginPageInfo, redirectWaitTime, lastInfo,
                   sleepMetrics, hist>>
    /\ UNCHANGED <<metricsVars, bioVars, msgVars, entryVars, helperVars>>

\* the end of one round of for (const sleeper of sleepers), with the record
\* that the round leaves in sleepData[sleeper]
NextSleeper(record) ==
    /\ sleepData' = [sleepData EXCEPT ![Sleepers[sleeperIdx]] = record]
    /\ sleepMetrics' = <<>>
    /\ IF sleeperIdx < Len(Sleepers)
       THEN /\ sleeperIdx' = sleeperIdx + 1
            /\ pc' = "select"
       ELSE /\ sleeperIdx' = 0
            /\ pc' = "return"

\* a step of the round of the current sleeper ended: how ("true", "false",
\* "done", "throw") and the fields it found
Stepped(step, result, found) ==
    hist' = [hist EXCEPT !.steps =
                Append(@, [sleeper |-> Sleepers[sleeperIdx], step |-> step,
                           result |-> result, found |-> found])]

\* a faulty variant: the extraction starts with the general message
AfterSelectMessageFirst(sleeperSelected) == "message"

\* a faulty variant: a sleeper that could not be selected is left alone
AfterSelectSkip(sleeperSelected) ==
    IF sleeperSelected THEN "metrics" ELSE "skip"

\* if (!sleeperSelected) warn else debug: both go on to
\* extractSleepDataOrchestrated, whose first step is the metrics
AfterSelect(sleeperSelected) == "metrics"

\* selectSleeper (true or false, it catches its errors), then the initial
\* sleepMetrics of extractSleepDataOrchestrated; an unexpected error in the
\* round goes to the catch block of the round
SelectSleeper ==
    /\ pc = "select"
    /\ \/ \E sleeperSelected \in BOOLEAN :
            /\ sleepMetrics' = EmptyMetrics
            /\ pc' = AfterSelect(sleeperSelected)
            /\ Stepped("select", IF sleeperSelected THEN "true" ELSE "false", {})
            /\ UNCHANGED <<sleeperIdx, sleepData>>
       \/ /\ NextSleeper(WithError(sleepData[Sleepers[sleeperIdx]]))
          /\ Stepped("select", "throw", {})
    /\ UNCHANGED <<browser, page, doc, sessionFile, sessionRestored, isLoggedIn,
                   err, pending, outcome, loginPageInfo, redirectWaitTime,
                   lastInfo>>
    /\ UNCHANGED <<metricsVars, bioVars, msgVars, entryVars, helperVars>>

\* Step 1: extractSleepData (it catches its errors) and the three copies; an
\* unexpected error goes to the catch block of extractSleepDataOrchestrated,
\* which returns sleepMetrics as it is
ExtractMetrics ==
    /\ pc = "metrics"
    /\ \/ \E data \in DebugStored :
            /\ sleepMetrics' = WithDebug(Assigned(sleepMetrics, MetricFields, data.found),
                                         data.stored)
            /\ pc' = "message"
            /\ Stepped("metrics", "done", data.found)
            /\ UNCHANGED <<sleeperIdx, sleepData>>
       \/ /\ NextSleeper(sleepMetrics)
          /\ Stepped("metrics", "throw", {})
    /\ UNCHANGED <<browser, page, doc, sessionFile, sessionRestored, isLoggedIn,
                   err, pending, outcome, loginPageInfo, redirectWaitTime,
                   lastInfo>>
    /\ UNCHANGED <<metricsVars, bioVars, msgVars, entryVars, helperVars>>

\* Step 2: extractSleepSessionMessageImproved
ExtractMessage ==
    /\ pc = "message"
    /\ \/ \E found \in MessageFound :
            /\ sleepMetrics' = Assigned(sleepMetrics, {"message"}, found)
            /\ pc' = "biosignals"
            /\ Stepped("message", "done", found)
            /\ UNCHANGED <<sleeperIdx, sleepData>>
       \/ /\ NextSleeper(sleepMetrics)
          /\ Stepped("message", "throw", {})
    /\ UNCHANGED <<browser, page, doc, sessionFile, sessionRestored, isLoggedIn,
                   err, pending, outcome, loginPageInfo, redirectWaitTime,
                   lastInfo>>
    /\ UNCHANGED <<metricsVars, bioVars, msgVars, entryVars, helperVars>>

\* Step 3: extractBiosignalsMessagesImproved, the final validation, return
ExtractBiosignals ==
    /\ pc = "biosignals"
    /\ \/ \E found \in BioFound :
            /\ NextSleeper(Validated(Assigned(sleepMetrics, BioFields, found)))
            /\ Stepped("biosignals", "done", found)
       \/ /\ NextSleeper(sleepMetrics)
          /\ Stepped("biosignals", "throw", {})
    /\ UNCHANGED <<browser, page, doc, sessionFile, sessionRestored, isLoggedIn,
                   err, pending, outcome, loginPageInfo, redirectWaitTime,
                   lastInfo>>
    /\ UNCHANGED <<metricsVars, bioVars, msgVars, entryVars, helperVars>>

(***************************************************************************)
(* scrapeSleepMetrics: return, catch, finally                              *)
(***************************************************************************)

\* return sleepData;  (finally runs before the call completes)
Return ==
    /\ pc = "return"
    /\ pending' = "return"
    /\ pc' = "finally"
    /\ UNCHANGED <<browser, page, doc, sessionFile, sessionRestored, isLoggedIn,
                   err, outcome, loginPageInfo, redirectWaitTime, lastInfo,
                   sleeperIdx, sleepData, sleepMetrics, hist>>
    /\ UNCHANGED <<metricsVars, bioVars, msgVars, entryVars, helperVars>>

\* catch: the debug screenshot (its errors are caught), then
\* throw new Error(`Failed to scrape SleepIQ data: ${error}`)
Catch ==
    /\ pc = "catch"
    /\ pending' = "throw"
    /\ pc' = "finally"
    /\ UNCHANGED <<browser, page, doc, sessionFile, sessionRestored, isLoggedIn,
                   err, outcome, loginPageInfo, redirectWaitTime, lastInfo,
                   sleeperIdx, sleepData, sleepMetrics, hist>>
    /\ UNCHANGED <<metricsVars, bioVars, msgVars, entryVars, helperVars>>

\* the completion the call ends with when finally ends normally
Completed(p) == IF p = "return" THEN "returned" ELSE "raised"

\* an error thrown inside finally replaces the pending completion
CloseError(p) == "raisedByClose"

\* finally: if (page) await page.close();
FinallyPage ==
    /\ pc = "finally"
    /\ IF page = "null"
       THEN /\ pc' = "finally_browser"
            /\ UNCHANGED <<page, outcome, hist>>
       ELSE /\ hist' = [hist EXCEPT !.closeCalls = Append(@, "page")]
            /\ \/ /\ page' = "closed"
                  /\ pc' = "finally_browser"
                  /\ UNCHANGED outcome
               \/ /\ outcome' = CloseError(pending)
                  /\ pc' = "done"
                  /\ UNCHANGED page
    /\ UNCHANGED <<browser, doc, sessionFile, sessionRestored, isLoggedIn, err,
                   pending, loginPageInfo, redirectWaitTime, lastInfo,
                   sleeperIdx, sleepData, sleepMetrics>>
    /\ UNCHANGED <<metricsVars, bioVars, msgVars, entryVars, helperVars>>

\* finally: if (browser) await browser.close();
FinallyBrowser ==
    /\ pc = "finally_browser"
    /\ pc' = "done"
    /\ IF browser = "null"
       THEN /\ outcome' = Completed(pending)
            /\ UNCHANGED <<browser, hist>>
       ELSE /\ hist' = [hist EXCEPT !.closeCalls = Append(@, "browser")]
            /\ \/ /\ browser' = "closed"
                  /\ outcome' = Completed(pending)
               \/ /\ outcome' = CloseError(pending)
                  /\ UNCHANGED browser
    /\ UNCHANGED <<page, doc, sessionFile, sessionRestored, isLoggedIn, err,
                   pending, loginPageInfo, redirectWaitTime, lastInfo,
                   sleeperIdx, sleepData, sleepMetrics>>
    /\ UNCHANGED <<metricsVars, bioVars, msgVars, entryVars, helperVars>>

(***************************************************************************)
(* extractSleepData: the three dashboard numbers                           *)
(*                                                                         *)
(* The function reads the document twice: the elements with their          *)
(* textContent (strategies 1 and 2) and document.body.innerText (the       *)
(* readiness test and strategy 3).  Texts are sequences of characters and  *)
(* the regular expressions are computed on them.                           *)
(***************************************************************************)

DIGITS == <<"0", "1", "2", "3", "4", "5", "6", "7", "8", "9">>
Digits == {DIGITS[i] : i \in 1..Len(DIGITS)}

\* \d, \w and \s of the regular expressions
IsDigit(c) == c \in Digits
IsWord(c) ==
    \/ c \in Digits
    \/ c = "_"
    \/ \E i \in 1..Len(UPPER) : c = UPPER[i] \/ c = LOWER[i]
IsSpace(c) == c \in {" ", "\n", "NBSP"}

SetMin(S) == CHOOSE x \in S : \A y \in S : x <= y

\* the labels and the needles of extractSleepData
L30 == <<"3", "0", "-", "d", "a", "y", " ", "a", "v", "g">>
LSCORE ==
    <<"S", "l", "e", "e", "p", "I", "Q", "®", " ", "s", "c", "o", "r", "e">>
LBEST == <<"A", "l", "l", "-", "t", "i", "m", "e", " ", "b", "e", "s", "t">>
S_SleepIQ == <<"S", "l", "e", "e", "p", "I", "Q">>
S_30day == <<"3", "0", "-", "d", "a", "y">>
S_avg == <<"a", "v", "g">>
S_Alltime == <<"A", "l", "l", "-", "t", "i", "m", "e">>
S_best == <<"b", "e", "s", "t">>
S_score == <<"s", "c", "o", "r", "e">>

\* the length of the run of digits, of white space, that starts at s[i]
RECURSIVE DigitRun(_, _)
DigitRun(s, i) ==
    IF i <= Len(s) /\ IsDigit(s[i]) THEN 1 + DigitRun(s, i + 1) ELSE 0

RECURSIVE SpaceRun(_, _)
SpaceRun(s, i) ==
    IF i <= Len(s) /\ IsSpace(s[i]) THEN 1 + SpaceRun(s, i + 1) ELSE 0

\* parseInt of a text of digits
RECURSIVE ParseInt(_)
ParseInt(s) ==
    IF s = <<>> THEN 0
    ELSE 10 * ParseInt(SubSeq(s, 1, Len(s) - 1))
         + (CHOOSE d \in 0..9 : DIGITS[d + 1] = s[Len(s)])

\* text.trim()
RECURSIVE Trim(_)
Trim(s) ==
    IF s = <<>> THEN s
    ELSE IF IsSpace(Head(s)) THEN Trim(Tail(s))
    ELSE IF IsSpace(s[Len(s)]) THEN Trim(SubSeq(s, 1, Len(s) - 1))
    ELSE s

\* /\b(\d{lo,hi})\b/ matches at s[i]: a whole run of lo..hi digits with no
\* word character on either side
WordNumberAt(s, i, lo, hi) ==
    /\ IsDigit(s[i])
    /\ i = 1 \/ ~IsWord(s[i - 1])
    /\ DigitRun(s, i) \in lo..hi
    /\ i + DigitRun(s, i) > Len(s) \/ ~IsWord(s[i + DigitRun(s, i)])

\* text.match(/\b(\d{lo,hi})\b/): the capture of the leftmost match, <<>>
\* when there is none
WordNumber(s, lo, hi) ==
    LET starts == {i \in 1..Len(s) : WordNumberAt(s, i, lo, hi)}
    IN  IF starts = {} THEN <<>>
        ELSE SubSeq(s, SetMin(starts), SetMin(starts) + DigitRun(s, SetMin(starts)) - 1)

\* the literal lit, case-insensitively, at s[i]
LiteralAt(s, i, lit) ==
    /\ i + Len(lit) - 1 <= Len(s)
    /\ \A k \in 1..Len(lit) : ToLower(s[i + k - 1]) = ToLower(lit[k])

\* [\s\n]+(\d{1,3}) at s[j]: the capture, <<>> when it does not match.  The
\* capture is the first three digits of the run at most: nothing follows the
\* group in the pattern.
NumberAfter(s, j) ==
    LET w == SpaceRun(s, j)
        d == DigitRun(s, j + w)
    IN  IF w >= 1 /\ d >= 1
        THEN SubSeq(s, j + w, j + w + (IF d < 3 THEN d ELSE 3) - 1)
        ELSE <<>>

\* bodyText.match(/<label>[\s\n]+(\d{1,3})/i) for thirtyDayPattern and
\* bestPattern
LabelNumber(s, lit) ==
    LET hits == {i \in 1..Len(s) :
                    LiteralAt(s, i, lit) /\ NumberAfter(s, i + Len(lit)) # <<>>}
    IN  IF hits = {} THEN <<>> ELSE NumberAfter(s, SetMin(hits) + Len(lit))

\* /SleepIQ[®]?\s*score[\s\n]+(\d{1,3})/i at s[i]
ScorePatternAt(s, i) ==
    IF ~LiteralAt(s, i, S_SleepIQ) THEN <<>>
    ELSE LET a == i + Len(S_SleepIQ)
             b == IF a <= Len(s) /\ s[a] = "®" THEN a + 1 ELSE a
             c == b + SpaceRun(s, b)
         IN  IF LiteralAt(s, c, S_score)
             THEN NumberAfter(s, c + Len(S_score))
             ELSE <<>>

\* bodyText.match(scorePattern)
ScoreNumber(s) ==
    LET hits == {i \in 1..Len(s) : ScorePatternAt(s, i) # <<>>}
    IN  IF hits = {} THEN <<>> ELSE ScorePatternAt(s, SetMin(hits))

(* The document.  A dashboard is an optional header with the product name  *)
(* and a sequence of cards; a card has a label element, a number element,  *)
(* or both.  The containers (body and the cards) may carry a class that    *)
(* matches [class*="score"], [class*="sleepiq"], and the markup may have   *)
(* white space between the elements, which textContent keeps.              *)

\* the largest number of cards of a dashboard
MaxCards == 2

Labels == {<<>>, L30, LSCORE, LBEST}
Numbers == {<<>>, <<"7">>, <<"7", "0">>, <<"1", "5", "0">>}
Cards == [label : Labels, number : Numbers]

RECURSIVE CardSeqs(_)
CardSeqs(n) ==
    IF n = 0 THEN {<<>>}
    ELSE CardSeqs(n - 1)
         \cup {Append(cs, c) : cs \in {x \in CardSeqs(n - 1) : Len(x) = n - 1},
                               c \in Cards}

\* the page of the comment of strategy 3:
\* "30-day avg\n69\nSleepIQ® score\n65\nAll-time best\n88"
ScreenshotDashboard ==
    [header |-> FALSE, classed |-> FALSE, spaced |-> FALSE,
     cards |-> << [label |-> L30, number |-> <<"6", "9">>],
                  [label |-> LSCORE, number |-> <<"6", "5">>],
                  [label |-> LBEST, number |-> <<"8", "8">>] >>]

Dashboards ==
    [header : BOOLEAN, classed : BOOLEAN, spaced : BOOLEAN,
     cards : CardSeqs(MaxCards)]
    \cup {ScreenshotDashboard}

NoDashboard ==
    [header |-> FALSE, classed |-> FALSE, spaced |-> FALSE, cards |-> <<>>]

\* the texts of the leaf elements, in document order
RECURSIVE CardLines(_)
CardLines(cards) ==
    IF cards = <<>> THEN <<>>
    ELSE (IF Head(cards).label = <<>> THEN <<>> ELSE <<Head(cards).label>>)
         \o (IF Head(cards).number = <<>> THEN <<>> ELSE <<Head(cards).number>>)
         \o CardLines(Tail(cards))

Lines(d) ==
    (IF d.header THEN <<S_SleepIQ>> ELSE <<>>) \o CardLines(d.cards)

\* textContent joins the texts of the leaves, with the white space of the
\* markup between them; innerText puts each block on a line of its own
RECURSIVE Join(_, _)
Join(lines, sep) ==
    IF lines = <<>> THEN <<>>
    ELSE IF Len(lines) = 1 THEN lines[1]
    ELSE lines[1] \o sep \o Join(Tail(lines), sep)

Markup(spaced) == IF spaced THEN <<"\n">> ELSE <<>>

TextContent(d) == Join(Lines(d), Markup(d.spaced))
InnerText(d) == Join(Lines(d), <<"\n">>)

\* the elements of one card, the card element getting the index at
CardNodes(c, at, classed, spaced) ==
    << [text |-> Join(CardLines(<<c>>), Markup(spaced)), parent |-> 1,
        cls |-> classed] >>
    \o (IF c.label = <<>> THEN <<>>
        ELSE << [text |-> c.label, parent |-> at, cls |-> FALSE] >>)
    \o (IF c.number = <<>> THEN <<>>
        ELSE << [text |-> c.number, parent |-> at, cls |-> FALSE] >>)

RECURSIVE Nodes(_, _, _, _)
Nodes(cards, at, classed, spaced) ==
    IF cards = <<>> THEN <<>>
    ELSE CardNodes(Head(cards), at, classed, spaced)
         \o Nodes(Tail(cards),
                  at + Len(CardNodes(Head(cards), at, classed, spaced)),
                  classed, spaced)

\* document.querySelectorAll('*') from body on, in document order: body, the
\* header, the cards with their children; parent is an index, 0 for none
AllElements(d) ==
    LET head == IF d.header
                THEN << [text |-> S_SleepIQ, parent |-> 1, cls |-> FALSE] >>
                ELSE <<>>
    IN  << [text |-> TextContent(d), parent |-> 0, cls |-> d.classed] >>
        \o head \o Nodes(d.cards, 2 + Len(head), d.classed, d.spaced)

\* waitForFunction: the dashboard shows its key texts
DashboardReady(d) ==
    /\ Includes(InnerText(d), S_SleepIQ)
    /\ \/ Includes(InnerText(d), S_30day)
       \/ Includes(InnerText(d), S_Alltime)
       \/ Includes(InnerText(d), S_score)

\* Strategy 1: the first container that names the score and holds a
\* two-digit number
ScoreContainer(els) ==
    LET hits == {i \in 1..Len(els) :
                    /\ els[i].cls
                    /\ Includes(els[i].text, S_SleepIQ) \/ Includes(els[i].text, S_score)
                    /\ WordNumber(els[i].text, 2, 2) # <<>>}
    IN  IF hits = {} THEN <<>> ELSE WordNumber(els[SetMin(hits)].text, 2, 2)

\* Strategy 2, 30-day avg and all-time best: the number in the element, or
\* else in its parent
NearNumber(els, i) ==
    IF WordNumber(els[i].text, 1, 3) # <<>> THEN WordNumber(els[i].text, 1, 3)
    ELSE IF els[i].parent # 0 THEN WordNumber(els[els[i].parent].text, 1, 3)
    ELSE <<>>

\* the loop over allElements breaks at the first element that holds both
\* words and has a number near
WalkFor(els, a, b) ==
    LET hits == {i \in 1..Len(els) :
                    /\ Includes(els[i].text, a)
                    /\ Includes(els[i].text, b)
                    /\ NearNumber(els, i) # <<>>}
    IN  IF hits = {} THEN <<>> ELSE NearNumber(els, SetMin(hits))

\* parseInt(x) >= 0 && parseInt(x) <= 100
InRange(t) == ParseInt(t) >= 0 /\ ParseInt(t) <= 100

\* /^\d{2}$/ on the trimmed text, /^\s*(\d{2})\s*$/ on the text
TwoDigits(t) == Len(Trim(t)) = 2 /\ IsDigit(Trim(t)[1]) /\ IsDigit(Trim(t)[2])

\* Strategy 2, score: the two-digit number of the element, or else the first
\* child of its parent that is a two-digit number
ScoreNear(els, i) ==
    IF WordNumber(els[i].text, 2, 2) # <<>> /\ InRange(WordNumber(els[i].text, 2, 2))
    THEN WordNumber(els[i].text, 2, 2)
    ELSE IF els[i].parent = 0 THEN <<>>
    ELSE LET sibs == {j \in 1..Len(els) :
                         /\ els[j].parent = els[i].parent
                         /\ TwoDigits(els[j].text)
                         /\ InRange(Trim(els[j].text))}
         IN  IF sibs = {} THEN <<>> ELSE Trim(els[SetMin(sibs)].text)

ScoreWalk(els) ==
    LET hits == {i \in 1..Len(els) :
                    /\ \/ Includes(els[i].text, S_SleepIQ) /\ Includes(els[i].text, S_score)
                       \/ TwoDigits(els[i].text)
                    /\ ScoreNear(els, i) # <<>>}
    IN  IF hits = {} THEN <<>> ELSE ScoreNear(els, SetMin(hits))

\* a later strategy overrides an earlier one when it matches
Override(earlier, later) == IF later # <<>> THEN later ELSE earlier

\* the callback of page.evaluate: strategies 1, 2 and 3
EvaluateDashboard(d) ==
    LET els == AllElements(d)
        s1 == ScoreContainer(els)
    IN  [thirtyDayAvg |-> Override(WalkFor(els, S_30day, S_avg),
                                   LabelNumber(InnerText(d), L30)),
         sleepScore |-> Override(IF s1 # <<>> THEN s1 ELSE ScoreWalk(els),
                                 ScoreNumber(InnerText(d))),
         allTimeBest |-> Override(WalkFor(els, S_Alltime, S_best),
                                  LabelNumber(InnerText(d), LBEST))]

\* the initial values: empty strings
NoDashboardData == [thirtyDayAvg |-> <<>>, sleepScore |-> <<>>, allTimeBest |-> <<>>]

\* the call of extractSleepData on a dashboard
MetricsInit ==
    /\ metricsPc = "wait"
    /\ dashboard \in Dashboards
    /\ dashboardData = NoDashboardData

MetricsIdle ==
    /\ metricsPc = "idle"
    /\ dashboard = NoDashboard
    /\ dashboardData = NoDashboardData

\* page.waitForFunction(..., { timeout: 10000 }): it returns when the page
\* is ready and throws when it is not; the catch block keeps the empty
\* strings
WaitForDashboard ==
    /\ metricsPc = "wait"
    /\ metricsPc' = IF DashboardReady(dashboard) THEN "evaluate" ELSE "done"
    /\ UNCHANGED <<dashboard, dashboardData>>
    /\ UNCHANGED <<runVars, bioVars, msgVars, entryVars, helperVars>>

\* page.evaluate and the three assignments; page.evaluate may throw, and
\* the catch block keeps the empty strings
ExtractSleepData ==
    /\ metricsPc = "evaluate"
    /\ metricsPc' = "done"
    /\ \/ dashboardData' = EvaluateDashboard(dashboard)
       \/ dashboardData' = dashboardData
    /\ UNCHANGED dashboard
    /\ UNCHANGED <<runVars, bioVars, msgVars, entryVars, helperVars>>

(***************************************************************************)
(* extractBiosignalsMessagesImproved: the three biosignals messages        *)
(*                                                                         *)
(* A code point that has no printable form is one element of a text, named *)
(* by its abbreviation: "NBSP" is U+00A0, "ZWSP" is U+200B.                *)
(***************************************************************************)

\* the fields of the result, in the order the tabs are visited
BioTabs == <<"heartRateMsg", "heartRateVariabilityMsg", "breathRateMsg">>

\* the tab names the flow clicks, and other labels a header can show
T_HeartRate ==
    <<"H", "e", "a", "r", "t", " ", "R", "a", "t", "e">>
T_HeartRateVariability ==
    <<"H", "e", "a", "r", "t", " ", "R", "a", "t", "e", " ", "V", "a", "r",
      "i", "a", "b", "i", "l", "i", "t", "y">>
T_BreathRate ==
    <<"B", "r", "e", "a", "t", "h", " ", "R", "a", "t", "e">>
T_HRV ==
    <<"H", "R", "V">>
T_Breathing ==
    <<"B", "r", "e", "a", "t", "h", "i", "n", "g">>
S_Trends ==
    <<"T", "r", "e", "n", "d", "s">>
S_BPM ==
    <<"B", "P", "M">>
M_HeartRate ==
    <<"Y", "o", "u", "r", " ", "h", "e", "a", "r", "t", " ", "r", "a", "t",
      "e", " ", "w", "a", "s", " ", "r", "i", "g", "h", "t", " ", "o", "n",
      " ", "t", "r", "a", "c", "k", " ", "l", "a", "s", "t", " ", "n", "i",
      "g", "h", "t", ".">>
M_HeartRateSpaced ==
    <<"Y", "o", "u", "r", " ", "h", "e", "a", "r", "t", " ", "r", "a", "t",
      "e", "NBSP", "w", "a", "s", " ", "r", "i", "g", "h", "t", " ", "o",
      "n", " ", "t", "r", "a", "c", "k", " ", "ZWSP", " ", "l", "a", "s",
      "t", " ", "n", "i", "g", "h", "t", ".">>
M_HeartRateOpen ==
    <<"Y", "o", "u", "r", " ", "h", "e", "a", "r", "t", " ", "r", "a", "t",
      "e", " ", "w", "a", "s", " ", "r", "i", "g", "h", "t", " ", "o", "n",
      " ", "t", "r", "a", "c", "k", " ", "l", "a", "s", "t", " ", "n", "i",
      "g", "h", "t">>
M_HrvWayToGo ==
    <<"W", "a", "y", " ", "t", "o", " ", "g", "o", ",", " ", "y", "o", "u",
      "r", " ", "H", "R", "V", " ", "i", "s", " ", "i", "n", " ", "t", "h",
      "e", " ", "h", "i", "g", "h", " ", "r", "a", "n", "g", "e", ".", " ",
      "K", "e", "e", "p", " ", "i", "t", " ", "u", "p", "!">>
M_HrvHighRange ==
    <<"Y", "o", "u", "r", " ", "H", "R", "V", " ", "w", "a", "s", " ", "i",
      "n", " ", "t", "h", "e", " ", "h", "i", "g", "h", " ", "r", "a", "n",
      "g", "e", " ", "l", "a", "s", "t", " ", "n", "i", "g", "h", "t", ".">>
M_BreathRate ==
    <<"D", "o", "n", "'", "t", " ", "t", "a", "k", "e", " ", "i", "t", " ",
      "f", "o", "r", " ", "g", "r", "a", "n", "t", "e", "d", "!", " ", "A",
      " ", "b", "r", "e", "a", "t", "h", " ", "r", "a", "t", "e", " ", "a",
      "r", "o", "u", "n", "d", " ", "y", "o", "u", "r", " ", "a", "v", "e",
      "r", "a", "g", "e", " ", "i", "s", " ", "g", "o", "o", "d", ".">>
M_Tip ==
    <<"S", "y", "n", "c", " ", "y", "o", "u", "r", " ", "b", "e", "d", " ",
      "t", "o", " ", "s", "e", "e", " ", "m", "o", "r", "e", " ", "i", "n",
      "s", "i", "g", "h", "t", "s", " ", "e", "v", "e", "r", "y", " ", "m",
      "o", "r", "n", "i", "n", "g", ".">>
P_Hrv1 ==
    <<"Y", "o", "u", "r", " ", "h", "e", "a", "r", "t", " ", "r", "a", "t",
      "e", " ", "v", "a", "r", "i", "a", "b", "i", "l", "i", "t", "y", " ",
      "w", "a", "s", " ", "i", "n", " ", "t", "h", "e", " ", "h", "i", "g",
      "h", " ", "r", "a", "n", "g", "e">>
P_Hrv2 ==
    <<"W", "a", "y", " ", "t", "o", " ", "g", "o", ",", " ", "y", "o", "u",
      "r", " ", "H", "R", "V", " ", "i", "s", " ", "i", "n", " ", "t", "h",
      "e", " ", "h", "i", "g", "h", " ", "r", "a", "n", "g", "e">>
P_HighRange ==
    <<"h", "i", "g", "h", " ", "r", "a", "n", "g", "e">>
P_Breath1 ==
    <<"D", "o", "n", "'", "t", " ", "t", "a", "k", "e", " ", "i", "t", " ",
      "f", "o", "r", " ", "g", "r", "a", "n", "t", "e", "d", "!", " ", "A",
      " ", "b", "r", "e", "a", "t", "h", " ", "r", "a", "t", "e", " ", "a",
      "r", "o", "u", "n", "d">>
P_BreathRate ==
    <<"b", "r", "e", "a", "t", "h", " ", "r", "a", "t", "e">>
P_AroundAverage ==
    <<"a", "r", "o", "u", "n", "d", " ", "y", "o", "u", "r", " ", "a", "v",
      "e", "r", "a", "g", "e">>

\* /[\u00A0\u2000-\u200B\u2028\u2029]/
InvisibleSpace(c) == c \in {"NBSP", "ZWSP"}

\* .replace(/\s+/g, ' '): every run of white space becomes one space
\* (the first white space of a run becomes the space, the others are dropped)
NotDropped(c) == c # "DROP"
CollapseSpace(s) ==
    SelectSeq([i \in 1..Len(s) |->
                  IF ~IsSpace(s[i]) THEN s[i]
                  ELSE IF i > 1 /\ IsSpace(s[i - 1]) THEN "DROP"
                  ELSE " "],
              NotDropped)

\* .replace(/[\u00A0\u2000-\u200B\u2028\u2029]/g, ' ')
ReplaceInvisible(s) ==
    [i \in 1..Len(s) |-> IF InvisibleSpace(s[i]) THEN " " ELSE s[i]]

\* "Clean up messages": if (results[key]) collapse, replace, trim
CleanUp(s) ==
    IF s = <<>> THEN s ELSE Trim(ReplaceInvisible(CollapseSpace(s)))

(* The biosignals page: a header with the three tab labels, the content    *)
(* element with the message of the active tab, and possibly one more       *)
(* visible text outside both, before the header or after the content.      *)

BioLabels(p) ==
    IF p.labels = "full"
    THEN <<T_HeartRate, T_HeartRateVariability, T_BreathRate>>
    ELSE <<T_HeartRate, T_HRV, T_Breathing>>

TabIndex(tab) == CHOOSE i \in 1..Len(BioTabs) : BioTabs[i] = tab

\* the white space of the markup between two elements, and the separator
\* that innerText puts between them
BioMarkup(p) == IF p.inline THEN <<" ">> ELSE <<>>
BioLineBreak(p) == IF p.inline THEN <<" ">> ELSE <<"\n">>

\* the texts of the leaves, in document order
BioLeaves(p) ==
    (IF p.outside = "before" THEN <<M_Tip>> ELSE <<>>)
    \o BioLabels(p)
    \o (IF p.msgs[p.active] = <<>> THEN <<>> ELSE <<p.msgs[p.active]>>)
    \o (IF p.outside = "after" THEN <<M_Tip>> ELSE <<>>)

\* document.body.innerText
BioInnerText(p) == Join(BioLeaves(p), BioLineBreak(p))

\* document.querySelectorAll('*') from body on: body, the text before the
\* header, the header, the tab elements, the content, the text after it.
\* where is "body", "outside", "header", "tab" or "content".
BioElements(p) ==
    << [text |-> Join(BioLeaves(p), BioMarkup(p)), where |-> "body"] >>
    \o (IF p.outside = "before"
        THEN << [text |-> M_Tip, where |-> "outside"] >> ELSE <<>>)
    \o << [text |-> Join(BioLabels(p), BioMarkup(p)), where |-> "header"] >>
    \o (IF p.tabElements
        THEN [i \in 1..Len(BioTabs) |-> [text |-> BioLabels(p)[i], where |-> "tab"]]
        ELSE <<>>)
    \o << [text |-> p.msgs[p.active], where |-> "content"] >>
    \o (IF p.outside = "after"
        THEN << [text |-> M_Tip, where |-> "outside"] >> ELSE <<>>)

\* a faulty variant: the end of the text is not looked at
MessageLikeAnyEnd(t) == Len(t) > 30 /\ Len(t) < 500

\* text.length > 30 && text.length < 500 && (endsWith('.') || endsWith('!'))
MessageLike(t) ==
    /\ Len(t) > 30
    /\ Len(t) < 500
    /\ t[Len(t)] \in {".", "!"}

\* "Skip if it contains tab-like text"
TabLike(t) ==
    \/ Includes(t, T_HeartRateVariability)
    \/ Includes(t, T_BreathRate)
    \/ Includes(t, S_Trends)
    \/ Includes(t, S_30day)
    \/ Includes(t, S_BPM)
    \/ Includes(t, T_HRV) /\ Includes(t, T_BreathRate)

\* /^\d+$/.test(text.trim())
NumbersOnly(t) == t # <<>> /\ \A i \in 1..Len(t) : IsDigit(t[i])

\* the elements the scan accepts (every element of the page is visible)
Eligible(els) ==
    {i \in 1..Len(els) :
        /\ MessageLike(Trim(els[i].text))
        /\ ~TabLike(Trim(els[i].text))
        /\ ~NumbersOnly(Trim(els[i].text))}

\* extractActiveTabMessage: the text of the first element accepted, or ''
ActiveTabMessage(els) ==
    IF Eligible(els) = {} THEN <<>> ELSE Trim(els[SetMin(Eligible(els))].text)

\* the place of the element extractActiveTabMessage returns the text of
ActiveTabSource(els) ==
    IF Eligible(els) = {} THEN "none" ELSE els[SetMin(Eligible(els))].where

\* clickTab's page.evaluate: an element whose trimmed text is the name
TabFound(els, name) == \E i \in 1..Len(els) : Trim(els[i].text) = name

\* the name clickTab is called with for a field
TabName(tab) ==
    IF tab = "heartRateVariabilityMsg" THEN T_HeartRateVariability
    ELSE T_BreathRate

(* The fallback patterns.  Each is a literal, then literals after .* (any  *)
(* characters of the same line, as many as possible), then [^.]*\. (up to  *)
(* the first full stop).                                                   *)

\* s[i] starts the literal lit (case-sensitively)
ExactAt(s, i, lit) ==
    /\ i + Len(lit) - 1 <= Len(s)
    /\ \A k \in 1..Len(lit) : s[i + k - 1] = lit[k]

\* the index of the first full stop of s at or after pos, 0 when none
FirstStop(s, pos) ==
    IF \E j \in pos..Len(s) : s[j] = "."
    THEN SetMin({j \in pos..Len(s) : s[j] = "."})
    ELSE 0

SetMax(S) == CHOOSE x \in S : \A y \in S : x >= y

\* the end of the match of  .*lits[k] ... .*lits[n][^.]*\.  at s[pos], 0 when
\* there is none; .* is greedy, so the last place of lits[k] that lets the
\* rest match is taken
RECURSIVE RestEnd(_, _, _, _)
RestEnd(s, pos, lits, k) ==
    IF k > Len(lits) THEN FirstStop(s, pos)
    ELSE LET places == {j \in pos..Len(s) :
                           /\ ExactAt(s, j, lits[k])
                           /\ \A m \in pos..(j - 1) : s[m] # "\n"
                           /\ RestEnd(s, j + Len(lits[k]), lits, k + 1) # 0}
         IN  IF places = {} THEN 0
             ELSE RestEnd(s, SetMax(places) + Len(lits[k]), lits, k + 1)

\* bodyText.match(pattern): match[0], <<>> when there is no match
PatternMatch(s, lits) ==
    LET starts == {i \in 1..Len(s) :
                      /\ ExactAt(s, i, lits[1])
                      /\ RestEnd(s, i + Len(lits[1]), lits, 2) # 0}
    IN  IF starts = {} THEN <<>>
        ELSE SubSeq(s, SetMin(starts),
                    RestEnd(s, SetMin(starts) + Len(lits[1]), lits, 2))

\* the patterns of a field, in the order they are tried
FallbackPatterns(tab) ==
    IF tab = "heartRateVariabilityMsg"
    THEN << <<P_Hrv1>>, <<P_Hrv2>>, <<T_HRV, P_HighRange>> >>
    ELSE << <<P_Breath1>>,
            <<P_BreathRate, P_AroundAverage, S_SleepIQ, S_score>> >>

\* for (const pattern of patterns) { if (match) return match[0].trim() }
\* return ''
FallbackMessage(s, tab) ==
    LET hits == {n \in 1..Len(FallbackPatterns(tab)) :
                    PatternMatch(s, FallbackPatterns(tab)[n]) # <<>>}
    IN  IF hits = {} THEN <<>>
        ELSE Trim(PatternMatch(s, FallbackPatterns(tab)[SetMin(hits)]))

(* The call of extractBiosignalsMessagesImproved                           *)

BioMessages ==
    [heartRateMsg : {<<>>, M_HeartRate, M_HeartRateSpaced, M_HeartRateOpen},
     heartRateVariabilityMsg : {<<>>, M_HrvWayToGo, M_HrvHighRange},
     breathRateMsg : {<<>>, M_BreathRate}]

BioPages ==
    [labels : {"full", "short"}, tabElements : BOOLEAN, inline : BOOLEAN,
     msgs : BioMessages, outside : {"none", "before", "after"},
     active : {BioTabs[i] : i \in 1..Len(BioTabs)},
     default : {BioTabs[i] : i \in 1..Len(BioTabs)}]

NoBioPage ==
    [labels |-> "full", tabElements |-> TRUE, inline |-> FALSE,
     msgs |-> [t \in {BioTabs[i] : i \in 1..Len(BioTabs)} |-> <<>>],
     outside |-> "none", active |-> "heartRateMsg",
     default |-> "heartRateMsg"]

\* const results = { heartRateMsg: '', heartRateVariabilityMsg: '',
\*                   breathRateMsg: '' }
NoBioResults == [t \in {BioTabs[i] : i \in 1..Len(BioTabs)} |-> <<>>]

\* the routes a message flow can start on, and those the navigation to a
\* detail page can land on (the site may redirect)
\* the needle and the routes of the two navigations
S_hash_pages_sleep ==
    <<"#", "/", "p", "a", "g", "e", "s", "/", "s", "l", "e", "e", "p">>
S_details_sleep_session ==
    <<"#", "/", "p", "a", "g", "e", "s", "/", "s", "l", "e", "e", "p", "/",
      "d", "e", "t", "a", "i", "l", "s", "/", "s", "l", "e", "e", "p", "-",
      "s", "e", "s", "s", "i", "o", "n">>

\* s.indexOf(sub) + 1: the place of the first occurrence, 0 if there is none
IndexOf(s, sub) ==
    IF Includes(s, sub)
    THEN 1 + SetMin({i \in 0..(Len(s) - Len(sub)) :
                        \A k \in 1..Len(sub) : s[i + k] = sub[k]})
    ELSE 0

\* s.replace(sub, by) with a string for a pattern: the first occurrence only
ReplaceFirst(s, sub, by) ==
    IF IndexOf(s, sub) = 0 THEN s
    ELSE SubSeq(s, 1, IndexOf(s, sub) - 1) \o by
         \o SubSeq(s, IndexOf(s, sub) + Len(sub), Len(s))

\* s.split('#')[0]
BeforeHash(s) ==
    IF IndexOf(s, <<"#">>) = 0 THEN s
    ELSE SubSeq(s, 1, IndexOf(s, <<"#">>) - 1)

\* let biosignalsUrl: originalUrl when the page is on the biosignals details
\* already, else originalUrl.replace('#/pages/sleep', the route) if it
\* holds '#/pages/sleep', else baseUrl + the route
BiosignalsUrl(originalUrl) ==
    IF Includes(originalUrl, S_details_biosignals) THEN originalUrl
    ELSE IF Includes(originalUrl, S_hash_pages_sleep)
    THEN ReplaceFirst(originalUrl, S_hash_pages_sleep, S_details_biosignals)
    ELSE BeforeHash(originalUrl) \o S_details_biosignals

\* let sleepSessionUrl: originalUrl.replace('#/pages/sleep', the route) if
\* it holds '#/pages/sleep', else baseUrl + the route
SleepSessionUrl(originalUrl) ==
    IF Includes(originalUrl, S_hash_pages_sleep)
    THEN ReplaceFirst(originalUrl, S_hash_pages_sleep, S_details_sleep_session)
    ELSE BeforeHash(originalUrl) \o S_details_sleep_session

\* the routes the page can be on when a sleeper's flow starts: the
\* dashboard, the login page, the sleep session details that the flow
\* before it left, and for the sleep session flow the biosignals details
\* that the flow of the sleeper before left (the biosignals flow gets there
\* by BioNextSleeper)
FlowStarts(detail) ==
    {"sleep", "login", "sleepSession"}
    \cup (IF detail = "sleepSession" THEN {"biosignals"} ELSE {})
FlowLandings(detail) == {detail, "sleep", "login"}

\* originalUrl = page.url(); currentUrl is assigned after the navigation;
\* goto is the url page.goto took the page to, <<>> if there was none
StartedOn(r) == [original |-> r, page |-> r, current |-> r, goto |-> <<>>]

BioInit ==
    /\ bioPc = "navigate"
    /\ bioTab = 1
    /\ bioPage \in {p \in BioPages : p.active = p.default}
    /\ bioResults = NoBioResults
    /\ bioNav \in {StartedOn(r) : r \in FlowStarts("biosignals")}
    /\ bioLog = <<>>

BioIdle ==
    /\ bioPc = "idle"
    /\ bioTab = 1
    /\ bioPage = NoBioPage
    /\ bioResults = NoBioResults
    /\ bioNav = StartedOn("sleep")
    /\ bioLog = <<>>

\* what the flow did: the field it was working on and the event ("scan",
\* "click", "noclick", "settle", "fallback", "throw", and "throwGoto" for an
\* exception of a navigation)
BioLogged(event) == bioLog' = Append(bioLog, <<BioTabs[bioTab], event>>)

\* an exception inside the try block: the catch block logs it and the flow
\* goes on to the clean-up with the results assigned so far
BioCatch(event) ==
    /\ bioPc' = "cleanup"
    /\ BioLogged(event)
    /\ UNCHANGED <<bioTab, bioPage, bioResults, bioNav>>

\* after a field is assigned: the next tab, or the navigation back
BioNextTab ==
    IF bioTab < Len(BioTabs)
    THEN bioTab' = bioTab + 1 /\ bioPc' = "click"
    ELSE bioTab' = bioTab /\ bioPc' = "back"

\* a faulty variant: the url is not looked at
OnDetailAlways(url, needle) == TRUE

\* currentUrl.includes('biosignals'), currentUrl.includes('sleep-session')
OnDetail(url, needle) == Includes(url, needle)

\* where the flow goes after the navigation and the delay: the scan, or the
\* return of the empty results
AfterNavigate(url, needle) == IF OnDetail(url, needle) THEN "scan" ELSE "done"

\* page.url(), setCacheEnabled and page.goto(biosignalsUrl) unless the page
\* is on the biosignals details already, the 2 s delay, and the test
\* currentUrl.includes('biosignals'); page.goto can throw; a page that was
\* loaded shows its default tab (Heart Rate, as the code expects the site)
\* and a page that was not keeps the tab it had
BioNavigate ==
    /\ bioPc = "navigate"
    /\ \/ \E landed \in (IF Includes(UrlOf(bioNav.original), S_details_biosignals)
                         THEN {bioNav.original}
                         ELSE FlowLandings("biosignals")) :
            /\ bioNav' = [bioNav EXCEPT
                              !.page = landed, !.current = landed,
                              !.goto = IF BiosignalsUrl(UrlOf(bioNav.original))
                                           = UrlOf(bioNav.original)
                                       THEN <<>>
                                       ELSE BiosignalsUrl(UrlOf(bioNav.original))]
            /\ bioPage' = IF Includes(UrlOf(bioNav.original), S_details_biosignals)
                          THEN bioPage
                          ELSE [bioPage EXCEPT !.active = bioPage.default]
            /\ bioPc' = AfterNavigate(UrlOf(landed), S_biosignals)
            /\ UNCHANGED <<bioTab, bioResults, bioLog>>
       \/ /\ ~Includes(UrlOf(bioNav.original), S_details_biosignals)
          /\ BioCatch("throwGoto")
    /\ UNCHANGED <<runVars, metricsVars, msgVars, entryVars, helperVars>>

\* results.<field> = await extractActiveTabMessage()
BioScan ==
    /\ bioPc = "scan"
    /\ \/ /\ bioResults' = [bioResults EXCEPT
                               ![BioTabs[bioTab]] = ActiveTabMessage(BioElements(bioPage))]
          /\ BioLogged("scan")
          /\ BioNextTab
          /\ UNCHANGED <<bioPage, bioNav>>
       \/ BioCatch("throw")
    /\ UNCHANGED <<runVars, metricsVars, msgVars, entryVars, helperVars>>

\* a faulty variant: the scan follows the click without the delay
AfterClickNoDelay(clicked) == IF clicked THEN "scan" ELSE "fallback"

\* a faulty variant: the scan is used when the tab is not found, too
AfterClickScanAnyway(clicked) == IF clicked THEN "settle" ELSE "scan"

\* if (clicked) { the 1.5 s delay } return clicked; and then
\* if (hrvClicked) { extractActiveTabMessage } else { the patterns }
AfterClick(clicked) == IF clicked THEN "settle" ELSE "fallback"

\* clickTab, up to the click: page.evaluate finds the element whose text is
\* the name and clicks it, which makes its tab the active one
BioClick ==
    /\ bioPc = "click"
    /\ \/ /\ bioPc' = AfterClick(TabFound(BioElements(bioPage), TabName(BioTabs[bioTab])))
          /\ IF TabFound(BioElements(bioPage), TabName(BioTabs[bioTab]))
             THEN /\ bioPage' = [bioPage EXCEPT !.active = BioTabs[bioTab]]
                  /\ BioLogged("click")
             ELSE /\ UNCHANGED bioPage
                  /\ BioLogged("noclick")
          /\ UNCHANGED <<bioTab, bioResults, bioNav>>
       \/ BioCatch("throw")
    /\ UNCHANGED <<runVars, metricsVars, msgVars, entryVars, helperVars>>

\* clickTab: await new Promise(resolve => setTimeout(resolve, 1500))
BioSettle ==
    /\ bioPc = "settle"
    /\ bioPc' = "scan"
    /\ BioLogged("settle")
    /\ UNCHANGED <<bioTab, bioPage, bioResults, bioNav>>
    /\ UNCHANGED <<runVars, metricsVars, msgVars, entryVars, helperVars>>

\* results.<field> = await page.evaluate(the patterns on body.innerText)
BioFallback ==
    /\ bioPc = "fallback"
    /\ \/ /\ bioResults' = [bioResults EXCEPT
                               ![BioTabs[bioTab]] = FallbackMessage(BioInnerText(bioPage), BioTabs[bioTab])]
          /\ BioLogged("fallback")
          /\ BioNextTab
          /\ UNCHANGED <<bioPage, bioNav>>
       \/ BioCatch("throw")
    /\ UNCHANGED <<runVars, metricsVars, msgVars, entryVars, helperVars>>

\* if (originalUrl !== currentUrl) await page.goto(originalUrl): the page
\* is on the original route again, or page.goto throws
NavigatedBack(nav) ==
    IF UrlOf(nav.original) # UrlOf(nav.current)
    THEN [nav EXCEPT !.page = nav.original]
    ELSE nav

BioBack ==
    /\ bioPc = "back"
    /\ \/ /\ bioPc' = "cleanup"
          /\ bioNav' = NavigatedBack(bioNav)
          /\ UNCHANGED <<bioTab, bioPage, bioResults, bioLog>>
       \/ /\ UrlOf(bioNav.original) # UrlOf(bioNav.current)
          /\ BioCatch("throwGoto")
    /\ UNCHANGED <<runVars, metricsVars, msgVars, entryVars, helperVars>>

\* "Clean up messages", return results
BioCleanUp ==
    /\ bioPc = "cleanup"
    /\ bioResults' = [t \in DOMAIN bioResults |-> CleanUp(bioResults[t])]
    /\ bioPc' = "done"
    /\ UNCHANGED <<bioTab, bioPage, bioNav, bioLog>>
    /\ UNCHANGED <<runVars, metricsVars, msgVars, entryVars, helperVars>>

\* for (const sleeper of sleepers): the call for the next sleeper, with the
\* page where this call left it; the steps between the two calls
\* (selectSleeper, extractSleepData, extractSleepSessionMessageImproved
\* whose page.goto throws) do not load the page
BioNextSleeper ==
    /\ bioPc = "done"
    /\ bioPc' = "navigate"
    /\ bioTab' = 1
    /\ bioResults' = NoBioResults
    /\ bioNav' = StartedOn(bioNav.page)
    /\ bioLog' = <<>>
    /\ UNCHANGED bioPage
    /\ UNCHANGED <<runVars, metricsVars, msgVars, entryVars, helperVars>>

(***************************************************************************)
(* extractSleepSessionMessageImproved                                      *)
(***************************************************************************)

S_Details ==
    <<"D", "e", "t", "a", "i", "l", "s">>
S_Time_in_bed ==
    <<"T", "i", "m", "e", " ", "i", "n", " ", "b", "e", "d">>
S_Sleep_Number ==
    <<"S", "l", "e", "e", "p", " ", "N", "u", "m", "b", "e", "r">>
S_Exit_at ==
    <<"E", "x", "i", "t", " ", "a", "t">>
S_Did_you_know ==
    <<"D", "i", "d", " ", "y", "o", "u", " ", "k", "n", "o", "w", "?">>
S_Why_your_sleep_matters ==
    <<"W", "h", "y", " ", "y", "o", "u", "r", " ", "s", "l", "e", "e", "p",
      " ", "m", "a", "t", "t", "e", "r", "s">>
S_Restful ==
    <<"R", "e", "s", "t", "f", "u", "l">>
S_Restless ==
    <<"R", "e", "s", "t", "l", "e", "s", "s">>
M_Coaching ==
    <<"Y", "o", "u", " ", "w", "e", "r", "e", " ", "r", "e", "s", "t", "f",
      "u", "l", " ", "f", "o", "r", " ", "m", "o", "s", "t", " ", "o", "f",
      " ", "t", "h", "e", " ", "n", "i", "g", "h", "t", ".">>
M_CoachingGoal ==
    <<"G", "r", "e", "a", "t", " ", "j", "o", "b", ",", " ", "y", "o", "u",
      " ", "r", "e", "a", "c", "h", "e", "d", " ", "y", "o", "u", "r", " ",
      "s", "l", "e", "e", "p", " ", "g", "o", "a", "l", "!">>
M_CoachingOpen ==
    <<"Y", "o", "u", "r", " ", "s", "l", "e", "e", "p", " ", "w", "a", "s",
      " ", "a", " ", "b", "i", "t", " ", "s", "h", "o", "r", "t", "e", "r",
      " ", "t", "h", "a", "n", " ", "u", "s", "u", "a", "l">>
M_CoachingTime ==
    <<"Y", "o", "u", " ", "w", "e", "r", "e", " ", "i", "n", " ", "b", "e",
      "d", " ", "f", "o", "r", " ", "7", "h", " ", "3", "0", "m", " ", "l",
      "a", "s", "t", " ", "n", "i", "g", "h", "t", ".">>
M_DidYouKnow ==
    <<"D", "i", "d", " ", "y", "o", "u", " ", "k", "n", "o", "w", "?", " ",
      "S", "l", "e", "e", "p", " ", "h", "e", "l", "p", "s", " ", "y", "o",
      "u", "r", " ", "m", "e", "m", "o", "r", "y", ".">>

(* The sleep session page: possibly a "Details" link, the card with the    *)
(* coaching message (alone, or under a "Restful" label in one container),  *)
(* possibly a tip.                                                          *)

\* the texts of the children of the body, in document order
SessionParts(p) ==
    (IF p.details THEN <<S_Details>> ELSE <<>>)
    \o (IF p.card = <<>> THEN <<>>
        ELSE IF p.labelled THEN <<S_Restful \o <<" ">> \o p.card>>
        ELSE <<p.card>>)
    \o (IF p.tip THEN <<M_DidYouKnow>> ELSE <<>>)

\* Array.from(element.children).map(child => child.textContent?.trim())
\* .join(' ')
ChildrenText(texts) == Join([i \in 1..Len(texts) |-> Trim(texts[i])], <<" ">>)

\* document.querySelectorAll('*') from body on: body, the link, the container
\* of the card, the message, the tip.  children is childrenText, visible is
\* whether the bounding rectangle has a width and a height.
SessionElements(p) ==
    << [text |-> Join(SessionParts(p), <<"\n">>),
        children |-> ChildrenText(SessionParts(p)), visible |-> TRUE] >>
    \o (IF p.details
        THEN << [text |-> S_Details, children |-> <<>>, visible |-> TRUE] >>
        ELSE <<>>)
    \o (IF p.card # <<>> /\ p.labelled
        THEN << [text |-> S_Restful \o <<" ">> \o p.card,
                 children |-> ChildrenText(<<S_Restful, p.card>>),
                 visible |-> TRUE],
                [text |-> S_Restful, children |-> <<>>, visible |-> TRUE] >>
        ELSE <<>>)
    \o (IF p.card # <<>>
        THEN << [text |-> p.card, children |-> <<>>, visible |-> p.shown] >>
        ELSE <<>>)
    \o (IF p.tip
        THEN << [text |-> M_DidYouKnow, children |-> <<>>, visible |-> TRUE] >>
        ELSE <<>>)

\* text.length >= 20 && text.length <= 200 &&
\* (text.endsWith('.') || text.endsWith('!'))
CoachingLike(t) ==
    /\ Len(t) >= 20
    /\ Len(t) <= 200
    /\ t[Len(t)] \in {".", "!"}

\* /\d+h \d+m/.test(text)
TimeFormat(t) ==
    \E i \in 1..Len(t) : \E j \in (i + 3)..(Len(t) - 1) :
        /\ IsDigit(t[i])
        /\ t[i + 1] = "h"
        /\ t[i + 2] = " "
        /\ \A k \in (i + 3)..j : IsDigit(t[k])
        /\ t[j + 1] = "m"

\* "Skip if it's a metric label"
MetricLabel(t) ==
    \/ Includes(t, S_30day)
    \/ Includes(t, S_Alltime)
    \/ Includes(t, S_Details)
    \/ Includes(t, S_Time_in_bed)
    \/ Includes(t, S_Sleep_Number)
    \/ Includes(t, S_Exit_at)
    \/ TimeFormat(t)
    \/ (t # <<>> /\ IsDigit(t[1]))

\* "Skip 'Did you know?' and similar tips"
TipLike(t) ==
    Includes(t, S_Did_you_know) \/ Includes(t, S_Why_your_sleep_matters)

\* "Skip if it contains child text patterns that indicate it's a container"
ContainerLike(children) ==
    \/ Includes(children, S_Details)
    \/ Includes(children, S_Restful)
    \/ Includes(children, S_Restless)

\* the elements the scan of the sleep session page accepts
Coaching(els) ==
    {i \in 1..Len(els) :
        /\ els[i].visible
        /\ CoachingLike(Trim(els[i].text))
        /\ ~MetricLabel(Trim(els[i].text))
        /\ ~TipLike(Trim(els[i].text))
        /\ ~ContainerLike(els[i].children)}

\* const message = await page.evaluate(...): the text of the first element
\* accepted, or ''
SessionMessage(els) ==
    IF Coaching(els) = {} THEN <<>> ELSE Trim(els[SetMin(Coaching(els))].text)

SessionPages ==
    [details : BOOLEAN, labelled : BOOLEAN, shown : BOOLEAN, tip : BOOLEAN,
     card : {<<>>, M_Coaching, M_CoachingGoal, M_CoachingOpen, M_CoachingTime}]

NoSessionPage ==
    [details |-> FALSE, labelled |-> FALSE, shown |-> TRUE, tip |-> FALSE,
     card |-> <<>>]

MsgInit ==
    /\ msgPc = "navigate"
    /\ msgPage \in SessionPages
    /\ msgNav \in {StartedOn(r) : r \in FlowStarts("sleepSession")}
    /\ msgMessage = <<>>
    /\ msgLog = <<>>

MsgIdle ==
    /\ msgPc = "idle"
    /\ msgPage = NoSessionPage
    /\ msgNav = StartedOn("sleep")
    /\ msgMessage = <<>>
    /\ msgLog = <<>>

\* an exception inside the try block: the catch block logs it and the call
\* returns ''
MsgCatch(event) ==
    /\ msgPc' = "done"
    /\ msgMessage' = <<>>
    /\ msgLog' = Append(msgLog, event)
    /\ UNCHANGED <<msgPage, msgNav>>

\* page.url(), setCacheEnabled(false), page.goto(sleepSessionUrl), the 3 s
\* delay and the test currentUrl.includes('sleep-session'); setCacheEnabled
\* and page.goto can throw
MsgNavigate ==
    /\ msgPc = "navigate"
    /\ \/ \E landed \in FlowLandings("sleepSession") :
            /\ msgNav' = [msgNav EXCEPT
                              !.page = landed, !.current = landed,
                              !.goto = SleepSessionUrl(UrlOf(msgNav.original))]
            /\ msgPc' = AfterNavigate(UrlOf(landed), S_sleep_session)
            /\ UNCHANGED <<msgPage, msgMessage, msgLog>>
       \/ MsgCatch("throwGoto")
    /\ UNCHANGED <<runVars, metricsVars, bioVars, entryVars, helperVars>>

\* const message = await page.evaluate(...)
MsgScan ==
    /\ msgPc = "scan"
    /\ \/ /\ msgMessage' = SessionMessage(SessionElements(msgPage))
          /\ msgLog' = Append(msgLog, "scan")
          /\ msgPc' = "back"
          /\ UNCHANGED <<msgPage, msgNav>>
       \/ MsgCatch("throw")
    /\ UNCHANGED <<runVars, metricsVars, bioVars, entryVars, helperVars>>

\* "Navigate back" and return message.trim(); page.goto can throw
MsgBack ==
    /\ msgPc = "back"
    /\ \/ /\ msgNav' = NavigatedBack(msgNav)
          /\ msgMessage' = Trim(msgMessage)
          /\ msgPc' = "done"
          /\ UNCHANGED <<msgPage, msgLog>>
       \/ /\ UrlOf(msgNav.original) # UrlOf(msgNav.current)
          /\ MsgCatch("throwGoto")
    /\ UNCHANGED <<runVars, metricsVars, bioVars, entryVars, helperVars>>

(***************************************************************************)
(* The entry points: lambdaHandler, exports.handler, testLogin, and a      *)
(* direct call of scrapeSleepMetrics, with the session file they share     *)
(***************************************************************************)

U_api ==
    <<"a", "p", "i">>
P_key ==
    <<"k", "e", "y">>
U_ann ==
    <<"a", "n", "n">>
U_bob ==
    <<"b", "o", "b">>
P_pw ==
    <<"p", "w">>
P_secret ==
    <<"s", "e", "c", "r", "e", "t">>
P_secret1234 ==
    <<"s", "e", "c", "r", "e", "t", "1", "2", "3", "4">>
P_secret12345 ==
    <<"s", "e", "c", "r", "e", "t", "1", "2", "3", "4", "5">>
S_Basic ==
    <<"B", "a", "s", "i", "c", " ">>
S_stars ==
    <<"*", "*", "*">>
S_dots ==
    <<".", ".", ".">>
H_Good ==
    <<"B", "a", "s", "i", "c", " ", "Y", "X", "B", "p", "O", "m", "t", "l",
      "e", "Q", "=", "=">>
H_GoodSpaced ==
    <<"B", "a", "s", "i", "c", " ", " ", "Y", "X", "B", "p", "O", "m", "t",
      "l", "e", "Q", "=", "=", " ">>
H_WrongPassword ==
    <<"B", "a", "s", "i", "c", " ", "Y", "X", "B", "p", "O", "m", "t", "l",
      "e", "A", "=", "=">>
H_NoColon ==
    <<"B", "a", "s", "i", "c", " ", "Y", "X", "B", "p", "a", "2", "V", "5">>
H_TwoColons ==
    <<"B", "a", "s", "i", "c", " ", "Y", "X", "B", "p", "O", "m", "t", "l",
      "e", "T", "p", "4">>
H_ShortPassword ==
    <<"B", "a", "s", "i", "c", " ", "Y", "X", "B", "p", "O", "m", "s", "=">>
H_LowerScheme ==
    <<"b", "a", "s", "i", "c", " ", "Y", "X", "B", "p", "O", "m", "t", "l",
      "e", "Q", "=", "=">>
H_Bare ==
    <<"Y", "X", "B", "p", "O", "m", "t", "l", "e", "Q", "=", "=">>
S_Username ==
    <<"U", "s", "e", "r", "n", "a", "m", "e", ":", " ">>
S_Password ==
    <<"P", "a", "s", "s", "w", "o", "r", "d", ":", " ">>
Base64Alphabet ==
    <<"A", "B", "C", "D", "E", "F", "G", "H", "I", "J", "K", "L", "M", "N",
      "O", "P", "Q", "R", "S", "T", "U", "V", "W", "X", "Y", "Z", "a", "b",
      "c", "d", "e", "f", "g", "h", "i", "j", "k", "l", "m", "n", "o", "p",
      "q", "r", "s", "t", "u", "v", "w", "x", "y", "z", "0", "1", "2", "3",
      "4", "5", "6", "7", "8", "9", "+", "/">>
AsciiPrintable ==
    <<" ", "!", "\"", "#", "$", "%", "&", "'", "(", ")", "*", "+", ",",
      "-", ".", "/", "0", "1", "2", "3", "4", "5", "6", "7", "8", "9", ":",
      ";", "<", "=", ">", "?", "@", "A", "B", "C", "D", "E", "F", "G", "H",
      "I", "J", "K", "L", "M", "N", "O", "P", "Q", "R", "S", "T", "U", "V",
      "W", "X", "Y", "Z", "[", "\\", "]", "^", "_", "GRAVE", "a", "b", "c",
      "d", "e", "f", "g", "h", "i", "j", "k", "l", "m", "n", "o", "p", "q",
      "r", "s", "t", "u", "v", "w", "x", "y", "z", "{", "|", "}", "~">>
P_k == <<"k">>

\* undefined (a variable of the environment that is not set, a header that
\* is not sent, null)
Absent == <<"UNDEFINED">>

\* !v
Falsy(v) == v = Absent \/ v = <<>>

\* s.substring(0, n)
Substring(s, n) == SubSeq(s, 1, IF Len(s) < n THEN Len(s) ELSE n)

\* testLogin: 'Password: ' + password.substring(0, 3) + '***'
ShownPassword(password) == S_Password \o Substring(password, 3) \o S_stars

\* authPageDebug: value: (el as HTMLInputElement).value?.substring(0, 10) + '...'
ShownValue(value) == Substring(value, 10) \o S_dots

\* Buffer.from(base64, "base64"): the characters of the alphabet before the
\* padding, four of them giving three bytes
IsBase64(c) == \E i \in 1..Len(Base64Alphabet) : Base64Alphabet[i] = c
Base64Value(c) == (CHOOSE i \in 1..Len(Base64Alphabet) : Base64Alphabet[i] = c) - 1

Base64Data(s) ==
    LET pads == {i \in 1..Len(s) : s[i] = "="}
        stop == IF pads = {} THEN Len(s) ELSE SetMin(pads) - 1
    IN  SelectSeq(SubSeq(s, 1, stop), IsBase64)

Sextet(d, i) == IF i <= Len(d) THEN Base64Value(d[i]) ELSE 0

\* the 24 bits of the g-th group of four characters
Quantum(d, g) ==
    Sextet(d, 4 * g - 3) * 262144 + Sextet(d, 4 * g - 2) * 4096
    + Sextet(d, 4 * g - 1) * 64 + Sextet(d, 4 * g)

ByteAt(d, k) ==
    LET x == Quantum(d, (k - 1) \div 3 + 1)
    IN  CASE (k - 1) % 3 = 0 -> x \div 65536
          [] (k - 1) % 3 = 1 -> (x \div 256) % 256
          [] OTHER -> x % 256

Base64Decode(s) ==
    LET d == Base64Data(s)
    IN  [k \in 1..((Len(d) * 6) \div 8) |-> ByteAt(d, k)]

\* .toString("utf8") of bytes (a byte outside the printable ASCII range is
\* shown as "?")
Utf8(bytes) ==
    [k \in 1..Len(bytes) |->
        IF bytes[k] >= 32 /\ bytes[k] <= 126
        THEN AsciiPrintable[bytes[k] - 31] ELSE "?"]

\* parseBasicAuth's null
NoCreds == [username |-> Absent, password |-> Absent]

\* headerVal.startsWith("Basic "), slice, trim, decode, indexOf(":"), slice
ParseBasicAuth(headerVal) ==
    IF Falsy(headerVal) \/ ~ExactAt(headerVal, 1, S_Basic) THEN NoCreds
    ELSE LET decoded ==
                 Utf8(Base64Decode(Trim(SubSeq(headerVal, Len(S_Basic) + 1,
                                               Len(headerVal)))))
             colons == {i \in 1..Len(decoded) : decoded[i] = ":"}
         IN  IF colons = {} THEN NoCreds
             ELSE [username |-> SubSeq(decoded, 1, SetMin(colons) - 1),
                   password |-> SubSeq(decoded, SetMin(colons) + 1,
                                       Len(decoded))]

\* a faulty variant: the password is not compared
AuthorizedByUsername(creds, env) ==
    creds # NoCreds /\ creds.username = env.API_USERNAME

\* !(!creds || creds.username !== envApiUser || creds.password !== envApiPass)
Authorized(creds, env) ==
    /\ creds # NoCreds
    /\ creds.username = env.API_USERNAME
    /\ creds.password = env.API_PASSWORD

\* process.env
Passwords == {P_pw, P_secret, P_secret1234, P_secret12345}
Usernames == {U_ann, U_bob}

Envs ==
    [API_USERNAME : {Absent, U_api},
     API_PASSWORD : {Absent, P_key, P_k},
     SLEEPIQ_USERNAME : {Absent, <<>>} \cup Usernames,
     SLEEPIQ_PASSWORD : {Absent, <<>>} \cup Passwords,
     SESSION_BUCKET_NAME : {Absent, <<"b">>}]

NoEnv ==
    [API_USERNAME |-> Absent, API_PASSWORD |-> Absent,
     SLEEPIQ_USERNAME |-> Absent, SLEEPIQ_PASSWORD |-> Absent,
     SESSION_BUCKET_NAME |-> Absent]

\* event.headers.authorization || event.headers.Authorization || ""
Headers ==
    {<<>>, H_Good, H_GoodSpaced, H_WrongPassword, H_NoColon, H_TwoColons,
     H_ShortPassword, H_LowerScheme, H_Bare}

\* the credentials a caller of scrapeSleepMetrics can pass
Credentials == [username : {<<>>} \cup Usernames, password : {<<>>} \cup Passwords]

\* { username, password } of the environment
EnvCredentials(env) ==
    [username |-> env.SLEEPIQ_USERNAME, password |-> env.SLEEPIQ_PASSWORD]

\* SessionManager.constructor: path.join(sessionDir, 'sleepiq-session.json')
\* with sessionDir = '.sessions'; scrapeSleepMetrics passes no argument
SessionFile(username) == ".sessions/sleepiq-session.json"

StoreKeys == {SessionFile(u) : u \in {<<>>} \cup Usernames}

NoCall ==
    [entry |-> "none", env |-> NoEnv, header |-> Absent, credentials |-> NoCreds]

\* status: the statusCode, the exit code or how the call ended; wwwAuth:
\* the WWW-Authenticate header; error: the kind of error answered; launched:
\* a browser was launched; restored: the username the restored session
\* record was saved under; log: the texts written that show credentials
NoReply ==
    [status |-> "none", wwwAuth |-> FALSE, error |-> "none",
     launched |-> FALSE, restored |-> Absent, log |-> <<>>]

EntryInit ==
    /\ entryPc = "ready"
    /\ call = NoCall
    /\ store = [k \in StoreKeys |-> Absent]
    /\ reply = NoReply

EntryIdle ==
    /\ entryPc = "idle"
    /\ call = NoCall
    /\ store = [k \in StoreKeys |-> Absent]
    /\ reply = NoReply

\* the entry point returns without calling scrapeSleepMetrics
Answered(status, error, wwwAuth) ==
    /\ reply' = [reply EXCEPT !.status = status, !.error = error,
                              !.wwwAuth = wwwAuth]
    /\ entryPc' = "done"

\* lambdaHandler, up to the call of getSleepData
LambdaHandler ==
    /\ entryPc = "ready"
    /\ \E env \in Envs :
        /\ call' = [entry |-> "lambdaHandler", env |-> env, header |-> Absent,
                    credentials |-> EnvCredentials(env)]
        /\ IF Falsy(env.SLEEPIQ_USERNAME) \/ Falsy(env.SLEEPIQ_PASSWORD)
           THEN Answered("500", "configuration", FALSE)
           ELSE entryPc' = "launch" /\ reply' = reply
    /\ store' = store
    /\ UNCHANGED <<runVars, metricsVars, bioVars, msgVars, helperVars>>

\* exports.handler, up to the call of scrapeSleepMetrics;
\* getPuppeteerLaunchOptions can throw
Handler ==
    /\ entryPc = "ready"
    /\ \E env \in Envs, header \in Headers :
        /\ call' = [entry |-> "handler", env |-> env, header |-> header,
                    credentials |-> EnvCredentials(env)]
        /\ IF \/ Falsy(env.API_USERNAME) \/ Falsy(env.API_PASSWORD)
              \/ Falsy(env.SLEEPIQ_USERNAME) \/ Falsy(env.SLEEPIQ_PASSWORD)
              \/ Falsy(env.SESSION_BUCKET_NAME)
           THEN Answered("500", "configuration", FALSE)
           ELSE IF ~Authorized(ParseBasicAuth(header), env)
           THEN Answered("401", "unauthorized", TRUE)
           ELSE \/ entryPc' = "launch" /\ reply' = reply
                \/ Answered("500", "internal", FALSE)
    /\ store' = store
    /\ UNCHANGED <<runVars, metricsVars, bioVars, msgVars, helperVars>>

\* testLogin, up to the call of scrapeSleepMetrics
TestLogin ==
    /\ entryPc = "ready"
    /\ \E env \in Envs :
        /\ env.API_USERNAME = Absent /\ env.API_PASSWORD = Absent
        /\ env.SESSION_BUCKET_NAME = Absent
        /\ call' = [entry |-> "testLogin", env |-> env, header |-> Absent,
                    credentials |-> EnvCredentials(env)]
        /\ IF Falsy(env.SLEEPIQ_USERNAME) \/ Falsy(env.SLEEPIQ_PASSWORD)
           THEN Answered("exit1", "configuration", FALSE)
           ELSE /\ entryPc' = "launch"
                /\ reply' = [reply EXCEPT !.log =
                                << S_Username \o env.SLEEPIQ_USERNAME,
                                   ShownPassword(env.SLEEPIQ_PASSWORD) >>]
    /\ store' = store
    /\ UNCHANGED <<runVars, metricsVars, bioVars, msgVars, helperVars>>

\* a caller passes credentials to scrapeSleepMetrics itself
DirectCall ==
    /\ entryPc = "ready"
    /\ \E credentials \in Credentials :
        call' = [entry |-> "direct", env |-> NoEnv, header |-> Absent,
                 credentials |-> credentials]
    /\ entryPc' = "launch"
    /\ UNCHANGED <<store, reply>>
    /\ UNCHANGED <<runVars, metricsVars, bioVars, msgVars, helperVars>>

\* scrapeSleepMetrics throws: the entry point answers next
ScrapeThrows(error) ==
    /\ reply' = [reply EXCEPT !.error = error, !.launched = TRUE]
    /\ entryPc' = "respond"

\* scrapeSleepMetrics: new SessionManager(), launchBrowser, newPage
ScrapeLaunch ==
    /\ entryPc = "launch"
    /\ \/ /\ reply' = [reply EXCEPT !.launched = TRUE]
          /\ entryPc' = "session"
       \/ ScrapeThrows("launch")
    /\ UNCHANGED <<call, store>>
    /\ UNCHANGED <<runVars, metricsVars, bioVars, msgVars, helperVars>>

\* scrapeSleepMetrics: loadSession and isLoggedIn: no record, a record
\* restored, or a record that is too old or not logged in and is cleared
ScrapeSession ==
    /\ entryPc = "session"
    /\ LET key == SessionFile(call.credentials.username)
       IN  IF store[key] = Absent
           THEN entryPc' = "login" /\ UNCHANGED <<store, reply>>
           ELSE \/ /\ reply' = [reply EXCEPT !.restored = store[key]]
                   /\ entryPc' = "respond"
                   /\ store' = store
                \/ /\ store' = [store EXCEPT ![key] = Absent]
                   /\ entryPc' = "login"
                   /\ reply' = reply
    /\ call' = call
    /\ UNCHANGED <<runVars, metricsVars, bioVars, msgVars, helperVars>>

\* scrapeSleepMetrics: performLogin, then saveSession.  The login succeeds
\* (the site takes credentials that are not empty; the record is written, or
\* the write fails and is logged), or the page stays on the auth page and
\* authPageDebug is logged with the values the inputs hold, or it stays on
\* the login page.
ScrapeLogin ==
    /\ entryPc = "login"
    /\ LET key == SessionFile(call.credentials.username)
           credentials == call.credentials
       IN  \/ /\ ~Falsy(credentials.username) /\ ~Falsy(credentials.password)
              /\ store' \in {store, [store EXCEPT ![key] = credentials.username]}
              /\ entryPc' = "respond"
              /\ reply' = reply
           \/ /\ \E kept \in BOOLEAN :
                    reply' = [reply EXCEPT
                                 !.error = "login",
                                 !.log = reply.log \o
                                     << ShownValue(IF kept THEN credentials.username
                                                   ELSE <<>>),
                                        ShownValue(IF kept THEN credentials.password
                                                   ELSE <<>>) >>]
              /\ entryPc' = "respond"
              /\ store' = store
           \/ /\ reply' = [reply EXCEPT !.error = "login"]
              /\ entryPc' = "respond"
              /\ store' = store
    /\ call' = call
    /\ UNCHANGED <<runVars, metricsVars, bioVars, msgVars, helperVars>>

\* the statusCode, exit code or completion after scrapeSleepMetrics
StatusOf(entry, error) ==
    CASE entry \in {"lambdaHandler", "handler"} ->
             IF error = "none" THEN "200" ELSE "500"
      [] entry = "testLogin" -> IF error = "none" THEN "exit0" ELSE "exit1"
      [] OTHER -> IF error = "none" THEN "returned" ELSE "thrown"

\* the entry point answers with the result or the error of the scrape
Respond ==
    /\ entryPc = "respond"
    /\ reply' = [reply EXCEPT !.status = StatusOf(call.entry, reply.error)]
    /\ entryPc' = "done"
    /\ UNCHANGED <<call, store>>
    /\ UNCHANGED <<runVars, metricsVars, bioVars, msgVars, helperVars>>

\* the next invocation: the session file is what the last one left
NextCall ==
    /\ entryPc = "done"
    /\ entryPc' = "ready"
    /\ call' = NoCall
    /\ reply' = NoReply
    /\ store' = store
    /\ UNCHANGED <<runVars, metricsVars, bioVars, msgVars, helperVars>>

(***************************************************************************)
(* performLogin, submitting the form (sleepiq.ts 335-483)                  *)
(***************************************************************************)

\* const buttonSelectors = [ six selectors ]
NumSelectors == 6

\* the strategies, in the order of the code: the Angular button component,
\* the common button selectors, the click at the coordinates of the button,
\* Enter on the password field, form.submit()
Strategies == <<"angular", "selectors", "coordinates", "enter", "form">>

(* The login page as the strategies see it: whether                         *)
(* '.primary-btn[role="button"]' or 'app-siq-button' finds an element, the  *)
(* selectors of buttonSelectors that find one, whether the centre of the    *)
(* button has coordinates other than 0, and whether there is a form.        *)
SubmitPages ==
    [button : BOOLEAN, matches : SUBSET (1..NumSelectors),
     onScreen : BOOLEAN, form : BOOLEAN]

NoSubmitPage ==
    [button |-> FALSE, matches |-> {}, onScreen |-> FALSE, form |-> FALSE]

\* let buttonClicked = false, before Strategy 1
SubmitInit ==
    /\ submitPc = "angular"
    /\ submitPage \in SubmitPages
    /\ buttonClicked = FALSE
    /\ submitIdx = 1
    /\ attempted = <<>>
    /\ submitted = <<>>

SubmitIdle ==
    /\ submitPc = "idle"
    /\ submitPage = NoSubmitPage
    /\ buttonClicked = FALSE
    /\ submitIdx = 1
    /\ attempted = <<>>
    /\ submitted = <<>>

\* a faulty variant: the strategy is executed whether a button was clicked
\* or not
IfAlways(clicked) == TRUE

\* if (!buttonClicked) { ... }
IfNotClicked(clicked) == ~clicked

\* the strategy is executed
Attempt(strategy) == attempted' = Append(attempted, strategy)

\* the strategy acted on the form and buttonClicked = true follows
Submit(strategy) ==
    /\ submitted' = Append(submitted, strategy)
    /\ buttonClicked' = TRUE

\* Strategy 1: page.evaluate dispatches the mouse events on the button and
\* clicks it, or returns null; if (clickResult) buttonClicked = true; the
\* catch block logs an exception of page.evaluate
SubmitAngular ==
    /\ submitPc = "angular"
    /\ Attempt("angular")
    /\ \/ IF submitPage.button
          THEN Submit("angular")
          ELSE UNCHANGED <<buttonClicked, submitted>>
       \/ UNCHANGED <<buttonClicked, submitted>>
    /\ submitPc' = "selectors"
    /\ UNCHANGED <<submitPage, submitIdx>>
    /\ UNCHANGED <<runVars, metricsVars, bioVars, msgVars, entryVars>>
    /\ UNCHANGED <<retryVars, selVars, textVars>>

\* after a selector that did not click: the next selector, or the end of
\* the loop
NextSelector ==
    IF submitIdx < NumSelectors
    THEN submitIdx' = submitIdx + 1 /\ submitPc' = "selectors"
    ELSE submitIdx' = submitIdx /\ submitPc' = "coordinates"

\* Strategy 2, one round of for (const selector of buttonSelectors): the
\* element is clicked and the loop left, or nothing is found, or
\* page.evaluate throws and the catch block logs it; the whole block is
\* skipped when a button was clicked
SubmitSelectors ==
    /\ submitPc = "selectors"
    /\ IF IfNotClicked(buttonClicked)
       THEN /\ attempted' = IF submitIdx = 1 THEN Append(attempted, "selectors")
                            ELSE attempted
            /\ \/ IF submitIdx \in submitPage.matches
                  THEN /\ Submit("selectors")
                       /\ submitPc' = "coordinates"
                       /\ submitIdx' = submitIdx
                  ELSE /\ NextSelector
                       /\ UNCHANGED <<buttonClicked, submitted>>
               \/ /\ NextSelector
                  /\ UNCHANGED <<buttonClicked, submitted>>
       ELSE /\ submitPc' = "coordinates"
            /\ UNCHANGED <<buttonClicked, submitIdx, attempted, submitted>>
    /\ UNCHANGED submitPage
    /\ UNCHANGED <<runVars, metricsVars, bioVars, msgVars, entryVars>>
    /\ UNCHANGED <<retryVars, selVars, textVars>>

\* Strategy 3: if (buttonCoords.found && buttonCoords.x && buttonCoords.y)
\* { await page.mouse.click(x, y); buttonClicked = true }; the catch block
\* logs an exception of page.evaluate or of page.mouse.click
SubmitCoordinates ==
    /\ submitPc = "coordinates"
    /\ IF IfNotClicked(buttonClicked)
       THEN /\ Attempt("coordinates")
            /\ \/ IF submitPage.button /\ submitPage.onScreen
                  THEN Submit("coordinates")
                  ELSE UNCHANGED <<buttonClicked, submitted>>
               \/ UNCHANGED <<buttonClicked, submitted>>
       ELSE UNCHANGED <<buttonClicked, attempted, submitted>>
    /\ submitPc' = "enter"
    /\ UNCHANGED <<submitPage, submitIdx>>
    /\ UNCHANGED <<runVars, metricsVars, bioVars, msgVars, entryVars>>
    /\ UNCHANGED <<retryVars, selVars, textVars>>

\* Strategy 4: await page.focus(passwordSelector); await
\* page.keyboard.press('Enter'); buttonClicked = true; there is no try
\* block, so an exception of either call leaves performLogin
SubmitEnter ==
    /\ submitPc = "enter"
    /\ IF IfNotClicked(buttonClicked)
       THEN /\ Attempt("enter")
            /\ \/ /\ Submit("enter")
                  /\ submitPc' = "form"
               \/ /\ submitPc' = "raised"
                  /\ UNCHANGED <<buttonClicked, submitted>>
       ELSE /\ submitPc' = "form"
            /\ UNCHANGED <<buttonClicked, attempted, submitted>>
    /\ UNCHANGED <<submitPage, submitIdx>>
    /\ UNCHANGED <<runVars, metricsVars, bioVars, msgVars, entryVars>>
    /\ UNCHANGED <<retryVars, selVars, textVars>>

\* the second "Strategy 4": if (!buttonClicked) { page.evaluate submits the
\* form if the document has one; buttonClicked = true }; no try block
\* either; then the wait for the navigation
SubmitForm ==
    /\ submitPc = "form"
    /\ IF IfNotClicked(buttonClicked)
       THEN /\ Attempt("form")
            /\ \/ /\ buttonClicked' = TRUE
                  /\ submitted' = IF submitPage.form
                                  THEN Append(submitted, "form")
                                  ELSE submitted
                  /\ submitPc' = "wait"
               \/ /\ submitPc' = "raised"
                  /\ UNCHANGED <<buttonClicked, submitted>>
       ELSE /\ submitPc' = "wait"
            /\ UNCHANGED <<buttonClicked, attempted, submitted>>
    /\ UNCHANGED <<submitPage, submitIdx>>
    /\ UNCHANGED <<runVars, metricsVars, bioVars, msgVars, entryVars>>
    /\ UNCHANGED <<retryVars, selVars, textVars>>

(***************************************************************************)
(* withRetries and its callers (helpers.ts 18-140)                         *)
(***************************************************************************)

\* the largest maxAttempts a caller passes
MaxAttemptsArg == 4

\* const { maxAttempts = 3, delay = 1000 } = options
DefaultMaxAttempts == 3
DefaultDelay == 1000

\* safeClick: const { maxAttempts = 3, delay = 500, ... } = options
ClickMaxAttempts == 3
ClickDelay == 500

\* waitForVisible: const { timeout = 10000, retries = 2 } = options, and
\* withRetries(..., { maxAttempts: retries, delay: 1000 })
VisibleRetries == 2
VisibleDelay == 1000

\* a property of options: the empty set when options does not have it,
\* and the set of its value when it has
Undefined == {}
Given(Values) == {{v} : v \in Values}

\* destructuring with a default: the default stands in for undefined only
OrDefault(value, default) ==
    IF value = Undefined THEN default ELSE CHOOSE v \in value : TRUE

(* A call: the exported function that is called and the options it is      *)
(* called with; for waitForVisible maxAttempts stands for retries, and     *)
(* it has no delay option.                                                 *)
RetryCalls ==
    [caller : {"withRetries", "safeClick"},
     maxAttempts : {Undefined} \cup Given(-1..MaxAttemptsArg),
     delay : {Undefined} \cup Given({0, ClickDelay, DefaultDelay})]
    \cup
    [caller : {"waitForVisible"},
     maxAttempts : {Undefined} \cup Given(-1..MaxAttemptsArg),
     delay : {Undefined}]

NoRetryCall ==
    [caller |-> "withRetries", maxAttempts |-> Undefined, delay |-> Undefined]

\* the maxAttempts and the delay withRetries works with
RetryOptions(c) ==
    CASE c.caller = "withRetries" ->
             [maxAttempts |-> OrDefault(c.maxAttempts, DefaultMaxAttempts),
              delay |-> OrDefault(c.delay, DefaultDelay)]
      [] c.caller = "safeClick" ->
             [maxAttempts |-> OrDefault(c.maxAttempts, ClickMaxAttempts),
              delay |-> OrDefault(c.delay, ClickDelay)]
      [] c.caller = "waitForVisible" ->
             [maxAttempts |-> OrDefault(c.maxAttempts, VisibleRetries),
              delay |-> VisibleDelay]

\* what withRetries did: kind is "returned" or "raised", and of is the
\* number of the call of fn whose result or error it is, 0 for the error
\* of the statement after the loop; here it neither returned nor raised
NoRetryResult == [kind |-> "none", of |-> 0]

\* for (let attempt = 1; ...
RetryInit ==
    /\ retryPc = "test"
    /\ retryCall \in RetryCalls
    /\ attempt = 1
    /\ retryLog = <<>>
    /\ retryResult = NoRetryResult

RetryIdle ==
    /\ retryPc = "idle"
    /\ retryCall = NoRetryCall
    /\ attempt = 1
    /\ retryLog = <<>>
    /\ retryResult = NoRetryResult

\* the calls of fn so far
FnCalls(log) == Cardinality({i \in 1..Len(log) : log[i][1] = "call"})

\* attempt <= maxAttempts: the body of the loop, or the statement after it
RetryTest ==
    /\ retryPc = "test"
    /\ retryPc' = IF attempt <= RetryOptions(retryCall).maxAttempts
                  THEN "call" ELSE "after"
    /\ UNCHANGED <<retryCall, attempt, retryLog, retryResult>>
    /\ UNCHANGED <<runVars, metricsVars, bioVars, msgVars, entryVars>>
    /\ UNCHANGED <<submitVars, selVars, textVars>>

\* a faulty variant: the attempt before the last one counts as the last
IsLastEarly(n, maxAttempts) == n + 1 >= maxAttempts

\* if (attempt === maxAttempts) throw error
IsLast(n, maxAttempts) == n = maxAttempts

\* try { return await fn(); } catch (error) { if (attempt === maxAttempts)
\* throw error; ... }: fn returns, or it raises an error, which is told
\* from the others by the number of the call
RetryFn ==
    /\ retryPc = "call"
    /\ retryLog' = Append(retryLog, <<"call", FnCalls(retryLog) + 1>>)
    /\ \/ /\ retryResult' = [kind |-> "returned", of |-> FnCalls(retryLog) + 1]
          /\ retryPc' = "done"
       \/ IF IsLast(attempt, RetryOptions(retryCall).maxAttempts)
          THEN /\ retryResult' = [kind |-> "raised", of |-> FnCalls(retryLog) + 1]
               /\ retryPc' = "done"
          ELSE /\ retryResult' = retryResult
               /\ retryPc' = "delay"
    /\ UNCHANGED <<retryCall, attempt>>
    /\ UNCHANGED <<runVars, metricsVars, bioVars, msgVars, entryVars>>
    /\ UNCHANGED <<submitVars, selVars, textVars>>

\* if (delay > 0) await new Promise(resolve => setTimeout(resolve, delay));
\* and attempt++
RetryDelay ==
    /\ retryPc = "delay"
    /\ retryLog' = IF RetryOptions(retryCall).delay > 0
                   THEN Append(retryLog, <<"delay", RetryOptions(retryCall).delay>>)
                   ELSE retryLog
    /\ attempt' = attempt + 1
    /\ retryPc' = "test"
    /\ UNCHANGED <<retryCall, retryResult>>
    /\ UNCHANGED <<runVars, metricsVars, bioVars, msgVars, entryVars>>
    /\ UNCHANGED <<submitVars, selVars, textVars>>

\* throw new Error('Retry logic failed - this should not be reached')
RetryAfter ==
    /\ retryPc = "after"
    /\ retryResult' = [kind |-> "raised", of |-> 0]
    /\ retryPc' = "done"
    /\ UNCHANGED <<retryCall, attempt, retryLog>>
    /\ UNCHANGED <<runVars, metricsVars, bioVars, msgVars, entryVars>>
    /\ UNCHANGED <<submitVars, selVars, textVars>>

(***************************************************************************)
(* selectSleeper (sleepiq.ts 1896-1967)                                    *)
(***************************************************************************)

(* The dashboard as selectSleeper sees it: whether an element with a       *)
(* sleeper name and a dropdown indicator is found, whether a visible,      *)
(* clickable element whose text is the requested name is found once the    *)
(* control was clicked, the profile the dashboard shows as the active one, *)
(* whether the option was clicked, and when the click on the option        *)
(* changes the active profile: within the 2 s delay, later, or never.      *)
SelPages ==
    [control : BOOLEAN, option : BOOLEAN,
     active : {Sleepers[i] : i \in 1..Len(Sleepers)},
     chosen : {FALSE}, switches : {"intime", "late", "never"}]

NoSelPage ==
    [control |-> FALSE, option |-> FALSE, active |-> Sleepers[1],
     chosen |-> FALSE, switches |-> "never"]

SelInit ==
    /\ selPc = "open"
    /\ selName \in {Sleepers[i] : i \in 1..Len(Sleepers)}
    /\ selPage \in SelPages
    /\ selResult = "none"

SelIdle ==
    /\ selPc = "idle"
    /\ selName = Sleepers[1]
    /\ selPage = NoSelPage
    /\ selResult = "none"

\* return false, and the catch block: logger.warn and return false
SelReturnFalse ==
    /\ selResult' = "false"
    /\ selPc' = "done"
    /\ UNCHANGED <<selName, selPage>>

\* Step 1: page.evaluate clicks the dropdown control if it finds it;
\* if (!dropdownFound) return false
SelOpen ==
    /\ selPc = "open"
    /\ \/ IF selPage.control
          THEN /\ selPc' = "choose"
               /\ UNCHANGED <<selName, selPage, selResult>>
          ELSE SelReturnFalse
       \/ SelReturnFalse
    /\ UNCHANGED <<runVars, metricsVars, bioVars, msgVars, entryVars>>
    /\ UNCHANGED <<submitVars, retryVars, textVars>>

\* Step 2: the 1 s delay, then page.evaluate clicks the element whose text
\* is the name if it finds it; if (!sleeperSelected) return false
SelChoose ==
    /\ selPc = "choose"
    /\ \/ IF selPage.option
          THEN /\ selPage' = [selPage EXCEPT !.chosen = TRUE]
               /\ selPc' = "settle"
               /\ UNCHANGED <<selName, selResult>>
          ELSE SelReturnFalse
       \/ SelReturnFalse
    /\ UNCHANGED <<runVars, metricsVars, bioVars, msgVars, entryVars>>
    /\ UNCHANGED <<submitVars, retryVars, textVars>>

\* await new Promise(resolve => setTimeout(resolve, 2000)); return true:
\* the dashboard may change to the chosen profile within the delay
SelSettle ==
    /\ selPc = "settle"
    /\ selPage' = IF selPage.switches = "intime"
                  THEN [selPage EXCEPT !.active = selName]
                  ELSE selPage
    /\ selResult' = "true"
    /\ selPc' = "done"
    /\ UNCHANGED selName
    /\ UNCHANGED <<runVars, metricsVars, bioVars, msgVars, entryVars>>
    /\ UNCHANGED <<submitVars, retryVars, textVars>>

\* the dashboard changes to the chosen profile after selectSleeper returned
SelLate ==
    /\ selPc = "done"
    /\ selPage.chosen
    /\ selPage.switches = "late"
    /\ selPage.active # selName
    /\ selPage' = [selPage EXCEPT !.active = selName]
    /\ UNCHANGED <<selPc, selName, selResult>>
    /\ UNCHANGED <<runVars, metricsVars, bioVars, msgVars, entryVars>>
    /\ UNCHANGED <<submitVars, retryVars, textVars>>

(***************************************************************************)
(* The clean-up of the messages, applied to a text and to its own result   *)
(* (improved-biosignals.ts 214-223)                                        *)
(***************************************************************************)

\* the longest text
MaxText == 4

\* an ordinary character, the space, U+00A0 and U+200B
TextAlphabet == {"a", " ", "NBSP", "ZWSP"}

Texts == UNION {[1..n -> TextAlphabet] : n \in 0..MaxText}

TextInit ==
    /\ textPc = 0
    /\ textIn \in Texts
    /\ textOut = <<>>

TextIdle ==
    /\ textPc = -1
    /\ textIn = <<>>
    /\ textOut = <<>>

\* results[key] = results[key].replace(...).replace(...).trim(), once on
\* the text and once more on what it gave
TextCleanUp ==
    /\ textPc \in {0, 1}
    /\ textPc' = textPc + 1
    /\ textOut' = Append(textOut, CleanUp(IF textOut = <<>> THEN textIn
                                          ELSE textOut[Len(textOut)]))
    /\ UNCHANGED textIn
    /\ UNCHANGED <<runVars, metricsVars, bioVars, msgVars, entryVars>>
    /\ UNCHANGED <<submitVars, retryVars, selVars>>

\* none of the helpers is at work
HelpersIdle == SubmitIdle /\ RetryIdle /\ SelIdle /\ TextIdle

(***************************************************************************)
(* The specifications                                                      *)
(***************************************************************************)

\* no run of scrapeSleepMetrics is going on
RunIdle ==
    /\ pc = "idle"
    /\ browser = "null"
    /\ page = "null"
    /\ doc = BlankDoc
    /\ sessionFile = NoFile
    /\ sessionRestored = FALSE
    /\ isLoggedIn = "unset"
    /\ err = "none"
    /\ pending = "none"
    /\ outcome = "running"
    /\ loginPageInfo = NoInfo
    /\ redirectWaitTime = 0
    /\ lastInfo = NoInfo
    /\ sleeperIdx = 0
    /\ sleepData = <<>>
    /\ sleepMetrics = <<>>
    /\ hist = HistInit

\* one run of scrapeSleepMetrics
Init == RunInit /\ MetricsIdle /\ BioIdle /\ MsgIdle /\ EntryIdle /\ HelpersIdle

Next ==
    \/ LaunchBrowser
    \/ NewPage
    \/ LoadSessionRead
    \/ LoadSessionReplay
    \/ CheckRestored
    \/ GotoDashboard
    \/ Interstitial
    \/ ClearSession
    \/ CheckNeedLogin
    \/ LoginGoto
    \/ LoginForm
    \/ LoginSubmit
    \/ LoginWait
    \/ LoginInspect
    \/ LoginPoll
    \/ LoginRecheck
    \/ LoginStuck
    \/ LoginFailed
    \/ LoginSuccess
    \/ SaveSession
    \/ ExtractStart
    \/ SelectSleeper
    \/ ExtractMetrics
    \/ ExtractMessage
    \/ ExtractBiosignals
    \/ Return
    \/ Catch
    \/ FinallyPage
    \/ FinallyBrowser

vars == <<runVars, metricsVars, bioVars, msgVars, entryVars, helperVars>>

Spec == Init /\ [][Next]_vars

\* one call of extractSleepData
InitMetrics == RunIdle /\ MetricsInit /\ BioIdle /\ MsgIdle /\ EntryIdle /\ HelpersIdle

NextMetrics ==
    \/ WaitForDashboard
    \/ ExtractSleepData

SpecMetrics == InitMetrics /\ [][NextMetrics]_vars

\* one call of extractBiosignalsMessagesImproved
InitBio == RunIdle /\ MetricsIdle /\ BioInit /\ MsgIdle /\ EntryIdle /\ HelpersIdle

NextBio ==
    \/ BioNavigate
    \/ BioScan
    \/ BioClick
    \/ BioSettle
    \/ BioFallback
    \/ BioBack
    \/ BioCleanUp
    \/ BioNextSleeper

SpecBio == InitBio /\ [][NextBio]_vars

\* one call of either message flow
InitMessages ==
    /\ RunIdle /\ MetricsIdle /\ EntryIdle /\ HelpersIdle
    /\ \/ BioInit /\ MsgIdle
       \/ BioIdle /\ MsgInit

NextMessages ==
    \/ BioNavigate
    \/ BioScan
    \/ BioClick
    \/ BioSettle
    \/ BioFallback
    \/ BioBack
    \/ BioCleanUp
    \/ BioNextSleeper
    \/ MsgNavigate
    \/ MsgScan
    \/ MsgBack

SpecMessages == InitMessages /\ [][NextMessages]_vars

\* invocations of the entry points, one after another
InitEntry == RunIdle /\ MetricsIdle /\ BioIdle /\ MsgIdle /\ EntryInit /\ HelpersIdle

NextEntry ==
    \/ LambdaHandler
    \/ Handler
    \/ TestLogin
    \/ DirectCall
    \/ ScrapeLaunch
    \/ ScrapeSession
    \/ ScrapeLogin
    \/ Respond
    \/ NextCall

SpecEntry == InitEntry /\ [][NextEntry]_vars

\* performLogin submitting the form, once
InitSubmit ==
    /\ RunIdle /\ MetricsIdle /\ BioIdle /\ MsgIdle /\ EntryIdle
    /\ SubmitInit /\ RetryIdle /\ SelIdle /\ TextIdle

NextSubmit ==
    \/ SubmitAngular
    \/ SubmitSelectors
    \/ SubmitCoordinates
    \/ SubmitEnter
    \/ SubmitForm

SpecSubmit == InitSubmit /\ [][NextSubmit]_vars

\* one call of withRetries, safeClick or waitForVisible
InitRetry ==
    /\ RunIdle /\ MetricsIdle /\ BioIdle /\ MsgIdle /\ EntryIdle
    /\ SubmitIdle /\ RetryInit /\ SelIdle /\ TextIdle

NextRetry ==
    \/ RetryTest
    \/ RetryFn
    \/ RetryDelay
    \/ RetryAfter

SpecRetry == InitRetry /\ [][NextRetry]_vars

\* one call of selectSleeper
InitSelect ==
    /\ RunIdle /\ MetricsIdle /\ BioIdle /\ MsgIdle /\ EntryIdle
    /\ SubmitIdle /\ RetryIdle /\ SelInit /\ TextIdle

NextSelect ==
    \/ SelOpen
    \/ SelChoose
    \/ SelSettle
    \/ SelLate

SpecSelect == InitSelect /\ [][NextSelect]_vars

\* the clean-up applied twice
InitText ==
    /\ RunIdle /\ MetricsIdle /\ BioIdle /\ MsgIdle /\ EntryIdle
    /\ SubmitIdle /\ RetryIdle /\ SelIdle /\ TextInit

NextText == TextCleanUp

SpecText == InitText /\ [][NextText]_vars

(***************************************************************************)
(* Properties of the run                                                   *)
(***************************************************************************)

SleeperNames == {Sleepers[i] : i \in 1..Len(Sleepers)}

\* a record with the seven keys, each a string
Shaped(m) == /\ Fields \subseteq DOMAIN m
             /\ \A f \in Fields : m[f] \in {"", "v"}

\* authentication is established: performLogin returned, or the restored
\* session passed the isLoggedIn check
AuthEstablished == hist.login = "returned" \/ isLoggedIn = "true"

\* extraction has started
ExtractionStarted == sleepData # <<>>

\* C1: every call of scrapeSleepMetrics ends either raised, or returned with
\* both profiles present and each of the seven fields a string, whatever
\* failed on the way.
C1_OutputShape ==
    pc = "done" =>
        \/ outcome \in {"raised", "raisedByClose"}
        \/ /\ outcome = "returned"
           /\ DOMAIN sleepData = SleeperNames
           /\ \A s \in SleeperNames : Shaped(sleepData[s])

\* a run that returned although rafa's round failed unexpectedly and miki's
\* extraction stopped after the metrics
C1_Witness ==
    /\ pc = "done"
    /\ outcome = "returned"
    /\ "raw" \in DOMAIN sleepData["rafa"]
    /\ sleepData["rafa"]["raw"] = "error"
    /\ sleepData["miki"]["score"] = "v"
    /\ sleepData["miki"]["heartRateMsg"] = ""

\* C2: performLogin never reports 'Login successful' when the last inspection
\* of the page (after any redirect polling) showed a login form on the
\* initial login route.
C2_StillOnLoginRaises ==
    pc = "login_success" =>
        ~(lastInfo.form /\ PathOf(lastInfo.path) = PathLogin)

\* C3: when loadSession returned false, or the isLoggedIn check after a
\* restore reported false, extraction starts only after performLogin returned.
C3_LoginBeforeExtraction ==
    (ExtractionStarted /\ (~sessionRestored \/ isLoggedIn = "false"))
        => hist.login = "returned"

\* C4: saveSession is called exactly when performLogin returned in the run,
\* at most once; a run whose login did not return never writes the record.
C4_SaveIffLoginReturned ==
    /\ hist.saveCalls <= 1
    /\ (hist.saveCalls = 1 => hist.login = "returned")
    /\ (hist.login = "returned" /\ pc # "save" => hist.saveCalls = 1)
    /\ (hist.login # "returned" => sessionFile # SessionData(Now))

\* a finished run that logged in and saved the session
C4_Witness ==
    /\ pc = "done"
    /\ hist.login = "returned"
    /\ hist.saveCalls = 1
    /\ sessionFile = SessionData(Now)

\* C5: for a stored record older than 24 hours loadSession returns false,
\* deletes the record and does not use the browser context.
C5_ExpiredNeverReplayed ==
    [][ ( /\ pc = "loadSession"
          /\ sessionFile.kind = "record"
          /\ Now - sessionFile.timestamp > MaxAge )
        => ( /\ pc' = "needLogin"
             /\ ~sessionRestored'
             /\ sessionFile' = NoFile
             /\ doc' = doc ) ]_vars

\* loadSession found the record expired and returned false
C5_Witness ==
    /\ hist.load = "expired"
    /\ pc = "needLogin"
    /\ sessionFile = NoFile
    /\ ~sessionRestored

\* C6: no error leaves loadSession; it returns false when there is no record
\* and when the record is unparsable, and whenever it returns false after a
\* failure the stored record is gone.
C6_LoadSessionNeverRaises ==
    [][ (pc = "loadSession" \/ pc = "loadReplay")
        => ( /\ pc' \in {"loadReplay", "check", "needLogin"}
             /\ (pc' = "check") = sessionRestored'
             /\ (pc' = "needLogin" => ~sessionRestored' /\ sessionFile' = NoFile)
             /\ (sessionFile.kind \in {"none", "corrupt"} => pc' = "needLogin") ) ]_vars

\* loadSession failed during the replay and returned false
C6_Witness ==
    /\ hist.load = "failedReplay"
    /\ pc = "needLogin"
    /\ sessionFile = NoFile
    /\ ~sessionRestored

\* C7: when the run is over and a browser was launched, close was called on
\* the page (if one was created) and then on the browser.
C7_BothClosed ==
    (pc = "done" /\ browser # "null")
        => hist.closeCalls = (IF page = "null" THEN <<>> ELSE <<"page">>)
                                \o <<"browser">>

\* C8: the run ends with the completion it had before cleanup; an error of
\* page.close or browser.close does not replace it.
C8_CloseErrorSwallowed ==
    pc = "done" => outcome = Completed(pending)

\* C9: once authentication is established the try block of the run does not
\* end with an error.
C9_NoRaiseAfterAuth ==
    (AuthEstablished /\ pending # "none") => pending = "return"

(***************************************************************************)
(* Properties of extractSleepData                                          *)
(***************************************************************************)

\* a text of digits whose value is an integer from 0 to 100
ScoreText(t) ==
    /\ t # <<>>
    /\ \A i \in 1..Len(t) : IsDigit(t[i])
    /\ ParseInt(t) \in 0..100

\* C10: when extractSleepData has ended, each of '30-average', 'score' and
\* 'all-time-best' is empty or an integer from 0 to 100.
C10_MetricsInRange ==
    metricsPc = "done" =>
        \A f \in DOMAIN dashboardData :
            dashboardData[f] = <<>> \/ ScoreText(dashboardData[f])

(***************************************************************************)
(* Properties of extractBiosignalsMessagesImproved                         *)
(***************************************************************************)

\* the flow logged the event for the field
BioDid(tab, event) == \E i \in 1..Len(bioLog) : bioLog[i] = <<tab, event>>

\* no two white-space characters in a row, and no non-breaking space
Normalized(t) ==
    /\ \A i \in 1..(Len(t) - 1) : ~(IsSpace(t[i]) /\ IsSpace(t[i + 1]))
    /\ \A i \in 1..Len(t) : t[i] # "NBSP"

\* C11: every message the biosignals flow returns has no two consecutive
\* white-space characters and no non-breaking space.
C11_MessagesNormalized ==
    bioPc = "done" => \A t \in BioFields : Normalized(bioResults[t])

\* C12: on a page that shows only the tab header and the content element,
\* a returned message is empty or a part of the text of the content element
\* of its tab; it is never header text joined with message text.
C12_OnlyContentText ==
    (bioPc = "done" /\ bioPage.outside = "none") =>
        \A t \in BioFields :
            \/ bioResults[t] = <<>>
            \/ \E u \in BioFields : Includes(CleanUp(bioPage.msgs[u]), bioResults[t])

\* C13: the active-tab scan never returns the text of the visible element
\* that lies outside the content container.
C13_ScanInsideContainer ==
    bioPc = "done" =>
        \A t \in BioFields : BioDid(t, "scan") => bioResults[t] # CleanUp(M_Tip)

\* C14: the scan for the heart-rate-variability and the breath-rate field
\* comes directly after the settle delay, which comes directly after the
\* successful click on the tab of that field.
C14_ScanAfterClickAndDelay ==
    \A i \in 1..Len(bioLog) :
        (bioLog[i][2] = "scan" /\ bioLog[i][1] # "heartRateMsg") =>
            /\ i >= 3
            /\ bioLog[i - 1] = <<bioLog[i][1], "settle">>
            /\ bioLog[i - 2] = <<bioLog[i][1], "click">>

\* the heart-rate-variability message was scanned after click and delay
C14_Witness ==
    /\ bioPc = "done"
    /\ BioDid("heartRateVariabilityMsg", "scan")
    /\ bioResults["heartRateVariabilityMsg"] = M_HrvWayToGo

\* C15: when the tab of a field is not found, the field is not scanned; it
\* is obtained from the patterns on the page text, so it is empty or a part
\* of the page text, and it is empty when the page shows no message of that
\* field; the flow ends by returning.
C15_FallbackWhenTabNotFound ==
    \A t \in {"heartRateVariabilityMsg", "breathRateMsg"} :
        BioDid(t, "noclick") =>
            /\ ~BioDid(t, "scan")
            /\ bioPc \in {"fallback", "click", "back", "cleanup", "done"}
            /\ bioPc = "done" =>
                  /\ bioResults[t] # <<>> => BioDid(t, "fallback")
                  /\ \/ bioResults[t] = <<>>
                     \/ Includes(CleanUp(BioInnerText(bioPage)), bioResults[t])
                  /\ bioPage.msgs[t] = <<>> => bioResults[t] = <<>>

\* the tab was not found and a pattern gave the message
C15_Witness ==
    /\ bioPc = "done"
    /\ BioDid("heartRateVariabilityMsg", "noclick")
    /\ BioDid("heartRateVariabilityMsg", "fallback")
    /\ bioResults["heartRateVariabilityMsg"] # <<>>

\* C16: an exception in the stage of one field leaves the later fields as
\* they would be without it: a later field whose tab can be clicked holds
\* the message the scan of its tab gives.
C16_OnlyOneFieldEmptied ==
    bioPc = "done" =>
        \A s \in BioFields, t \in BioFields :
            (/\ BioDid(s, "throw")
             /\ TabIndex(s) < TabIndex(t)
             /\ TabFound(BioElements(bioPage), TabName(t)))
            => bioResults[t] =
                 CleanUp(ActiveTabMessage(BioElements([bioPage EXCEPT !.active = t])))

(***************************************************************************)
(* Properties of the extraction of the two sleepers and of the stuck login *)
(***************************************************************************)

\* the steps of a sleeper that ended, as places of hist.steps
StepsOf(s) == {i \in 1..Len(hist.steps) : hist.steps[i].sleeper = s}

\* an unexpected exception interrupted the extraction of the sleeper
Interrupted(s) == \E i \in StepsOf(s) : hist.steps[i].result = "throw"

\* the fields that the steps of the sleeper found
Extracted(s) == UNION {hist.steps[i].found : i \in StepsOf(s)}

\* the record holds what the steps found, and empty strings elsewhere
HoldsExtracted(s) ==
    /\ Shaped(sleepData[s])
    /\ \A f \in Fields : sleepData[s][f] = "v" <=> f \in Extracted(s)

\* the record carries a note that describes the error
Noted(m) == "raw" \in DOMAIN m /\ m["raw"] = "error"

\* the extraction of the two sleepers has returned
ExtractionReturned == pc \in {"return", "finally", "finally_browser", "done"} /\ ExtractionStarted

\* C17: when an unexpected exception interrupted the extraction of a sleeper,
\* the record of that sleeper keeps the fields extracted before it, has empty
\* strings elsewhere and carries a note describing the error, and the other
\* sleeper was processed too.
C17_InterruptedRecordNoted ==
    ExtractionReturned =>
        \A s \in SleeperNames :
            Interrupted(s) =>
                /\ HoldsExtracted(s)
                /\ Noted(sleepData[s])
                /\ \A o \in SleeperNames : StepsOf(o) # {}

StageOrder == <<"select", "metrics", "message", "biosignals">>
StageIndex(step) == CHOOSE i \in 1..Len(StageOrder) : StageOrder[i] = step

\* the step at place i of hist.steps is the one that the fixed order puts
\* after the step before it
InOrder(i) ==
    IF i = 1
    THEN hist.steps[1].sleeper = "rafa" /\ hist.steps[1].step = "select"
    ELSE \/ /\ hist.steps[i].sleeper = hist.steps[i - 1].sleeper
            /\ hist.steps[i - 1].result # "throw"
            /\ StageIndex(hist.steps[i].step) = StageIndex(hist.steps[i - 1].step) + 1
         \/ /\ hist.steps[i - 1].sleeper = "rafa"
            /\ hist.steps[i].sleeper = "miki"
            /\ hist.steps[i].step = "select"
            /\ \/ hist.steps[i - 1].step = "biosignals"
               \/ hist.steps[i - 1].result = "throw"

\* the step the run is about to make is the one after the last step that
\* ended, for the same sleeper: nothing starts before that step has ended
NextInOrder ==
    pc \in {"metrics", "message", "biosignals"} =>
        /\ hist.steps # <<>>
        /\ hist.steps[Len(hist.steps)].sleeper = Sleepers[sleeperIdx]
        /\ hist.steps[Len(hist.steps)].result # "throw"
        /\ StageIndex(pc) = StageIndex(hist.steps[Len(hist.steps)].step) + 1

\* C18: the steps on the page are made in the fixed order select, metrics,
\* message, biosignals for rafa and then the same for miki; the steps of the
\* two sleepers are never interleaved and a step starts only when the step
\* before it has ended.
C18_FixedStepOrder ==
    /\ \A i \in 1..Len(hist.steps) : InOrder(i)
    /\ NextInOrder

\* a run that made the eight steps, to the end
C18_Witness ==
    /\ pc = "done"
    /\ outcome = "returned"
    /\ Len(hist.steps) = 8
    /\ hist.steps[4] = [sleeper |-> "rafa", step |-> "biosignals",
                        result |-> "done", found |-> BioFields]
    /\ hist.steps[8].sleeper = "miki"
    /\ hist.steps[8].step = "biosignals"

\* selectSleeper returned false for the sleeper
NotSelected(s) ==
    \E i \in StepsOf(s) :
        hist.steps[i].step = "select" /\ hist.steps[i].result = "false"

\* C19: when selectSleeper returned false for a sleeper the try block of the
\* run does not raise and the sleeper is not skipped: its metrics step comes
\* next, and what the steps found on the page is in its record; with false
\* for both sleepers the result holds two records with the seven fields.
C19_NotSelectedStillExtracted ==
    \A s \in SleeperNames :
        NotSelected(s) =>
            /\ pc # "catch"
            /\ pending # "throw"
            /\ \/ \E i \in StepsOf(s) : hist.steps[i].step = "metrics"
               \/ pc = "metrics" /\ Sleepers[sleeperIdx] = s
            /\ ExtractionReturned =>
                   /\ DOMAIN sleepData = SleeperNames
                   /\ \A o \in SleeperNames : Shaped(sleepData[o])
                   /\ Interrupted(s) \/
                          /\ HoldsExtracted(s)
                          /\ \A st \in {"metrics", "message", "biosignals"} :
                                 \E i \in StepsOf(s) : hist.steps[i].step = st

\* a run in which no sleeper could be selected and that returned the metrics
\* and messages of the page for both
C19_Witness ==
    /\ pc = "done"
    /\ outcome = "returned"
    /\ NotSelected("rafa")
    /\ NotSelected("miki")
    /\ \A s \in SleeperNames : \A f \in Fields : sleepData[s][f] = "v"

\* C20: when the login is stuck on the auth route with the login form, the
\* error is the 2FA error exactly when the text of the page holds
\* 'verification', '2fa' or 'code' (in any case of the letters), and the
\* stuck-on-auth-page error exactly when it does not.
C20_TwoFactorIffVocabulary ==
    (pc = "catch" /\ hist.authText # NoAuthText) =>
        /\ err \in {"twoFactor", "stuckOnAuth"}
        /\ err = "twoFactor" <=> HasVocabulary(hist.authText.phrase)

\* C21: the error that performLogin raises for a failed authentication, on
\* the login page and on the stuck auth page alike, holds in its message
\* the error texts and the red-styled texts found on the page.
C21_ErrorHoldsPageTexts ==
    (pc = "catch" /\ err \in {"loginFailed", "twoFactor", "stuckOnAuth"}) =>
        hist.errorTexts.found \subseteq hist.errorTexts.included

\* the flow read text of the page: a scan, a search for a tab, a fallback
BioReads == {i \in 1..Len(bioLog) : bioLog[i][2] \notin {"throw", "throwGoto"}}
MsgReads == {i \in 1..Len(msgLog) : msgLog[i] = "scan"}

\* C22: in both message flows text of the page is read only when the url
\* after the navigation and the delay holds the detail route ('biosignals',
\* 'sleep-session'); when it does not, the flow returns the empty string(s)
\* and has read nothing.
C22_ScanOnlyOnDetailRoute ==
    /\ BioReads # {} => Includes(UrlOf(bioNav.current), S_biosignals)
    /\ MsgReads # {} => Includes(UrlOf(msgNav.current), S_sleep_session)
    /\ (bioPc = "done" /\ ~Includes(UrlOf(bioNav.current), S_biosignals)) =>
           bioResults = NoBioResults /\ BioReads = {}
    /\ (msgPc = "done" /\ ~Includes(UrlOf(msgNav.current), S_sleep_session)) =>
           msgMessage = <<>> /\ MsgReads = {}

\* the navigation of the sleep session flow landed on the login page and
\* the flow returned
C22_Witness ==
    /\ msgPc = "done"
    /\ msgNav.original = "sleep"
    /\ msgNav.current = "login"
    /\ msgPage.card = M_Coaching
    /\ msgLog = <<>>

\* C23: each message flow leaves the page at the url it had when the flow
\* started, on every way out (message found, not found, detail route not
\* reached, error).
C23_PageLeftWhereItWas ==
    /\ bioPc = "done" => UrlOf(bioNav.page) = UrlOf(bioNav.original)
    /\ msgPc = "done" => UrlOf(msgNav.page) = UrlOf(msgNav.original)

\* C30: every message field that is not empty ends with '.' or '!', whether
\* the scan of the active tab, the scan of the sleep session page or a
\* fallback pattern gave it, after the clean-up.
C30_MessagesEndWithStopOrBang ==
    /\ bioPc = "done" =>
           \A t \in BioFields :
               bioResults[t] # <<>> =>
                   bioResults[t][Len(bioResults[t])] \in {".", "!"}
    /\ msgPc = "done" =>
           (msgMessage # <<>> => msgMessage[Len(msgMessage)] \in {".", "!"})

\* the flow returned a message the scan gave and one a pattern gave
C30_Witness ==
    /\ bioPc = "done"
    /\ BioDid("heartRateMsg", "scan")
    /\ bioResults["heartRateMsg"] # <<>>
    /\ BioDid("heartRateVariabilityMsg", "fallback")
    /\ bioResults["heartRateVariabilityMsg"] # <<>>

\* C24: no text that is logged holds the whole password: what is shown of
\* it is masked, whatever its length (also with 10 characters or fewer).
C24_PasswordNeverLoggedWhole ==
    ~Falsy(call.credentials.password) =>
        \A i \in 1..Len(reply.log) :
            ~Includes(reply.log[i], call.credentials.password)

\* C25: stored sessions go by username: a run never restores a record that
\* was saved by a run with another username.
C25_RestoredUnderSameUsername ==
    reply.restored # Absent => reply.restored = call.credentials.username

\* the run was given no username or no password
MissingCredentials ==
    /\ call.entry # "none"
    /\ Falsy(call.credentials.username) \/ Falsy(call.credentials.password)

\* C26: a run whose username or password is missing (absent or empty) fails
\* with a configuration error before any browser is launched, through the
\* Lambda handlers and through a direct call of scrapeSleepMetrics alike.
C26_MissingCredentialsFailBeforeLaunch ==
    MissingCredentials =>
        /\ ~reply.launched
        /\ entryPc = "done" => reply.error = "configuration"

\* the Authorization headers that decode to API_USERNAME:API_PASSWORD
MatchingHeaders(env) ==
    CASE env.API_USERNAME = U_api /\ env.API_PASSWORD = P_key ->
             {H_Good, H_GoodSpaced}
      [] env.API_USERNAME = U_api /\ env.API_PASSWORD = P_k -> {H_ShortPassword}
      [] OTHER -> {}

\* exports.handler called scrapeSleepMetrics
ScrapeStarted ==
    entryPc \in {"launch", "session", "login", "respond"} \/ reply.launched

\* every variable of the environment that exports.handler needs is set
Configured(env) ==
    /\ ~Falsy(env.API_USERNAME) /\ ~Falsy(env.API_PASSWORD)
    /\ ~Falsy(env.SLEEPIQ_USERNAME) /\ ~Falsy(env.SLEEPIQ_PASSWORD)
    /\ ~Falsy(env.SESSION_BUCKET_NAME)

\* C27, as claimed: exports.handler starts a scrape only when the Basic
\* Authorization header decodes exactly to API_USERNAME and API_PASSWORD; in
\* every other case it answers 401 with a WWW-Authenticate header and
\* launches no browser.
C27_ScrapeOnlyWithBasicAuth ==
    call.entry = "handler" =>
        /\ ScrapeStarted => call.header \in MatchingHeaders(call.env)
        /\ (entryPc = "done" /\ call.header \notin MatchingHeaders(call.env)) =>
               /\ reply.status = "401"
               /\ reply.wwwAuth
               /\ ~reply.launched

\* C27, amended: exports.handler starts a scrape only when the Basic
\* Authorization header decodes exactly to API_USERNAME and API_PASSWORD; in
\* every other case it launches no browser, answering 401 with a
\* WWW-Authenticate header when its environment is complete and 500 (server
\* not configured) when a variable it needs is missing.
C27_ScrapeOnlyWithBasicAuthWhenConfigured ==
    call.entry = "handler" =>
        /\ ScrapeStarted => call.header \in MatchingHeaders(call.env)
        /\ (entryPc = "done" /\ call.header \notin MatchingHeaders(call.env)) =>
               /\ ~reply.launched
               /\ IF Configured(call.env)
                  THEN reply.status = "401" /\ reply.wwwAuth
                  ELSE reply.status = "500" /\ ~reply.wwwAuth
                       /\ reply.error = "configuration"

\* a request whose header holds the right username and a wrong password was
\* answered 401 by a configured server
C27_Witness ==
    /\ entryPc = "done"
    /\ call.entry = "handler"
    /\ Configured(call.env)
    /\ call.header = H_WrongPassword
    /\ reply.status = "401"
    /\ reply.wwwAuth
    /\ ~reply.launched

\* C28: saveSession never raises and never makes the run fail: whether the
\* record was written or a step of it failed, the run goes on with the
\* statement after the call, with no error pending and its result untouched.
C28_SaveFailureNotRaised ==
    [][pc = "save" =>
          /\ pc' = "settle"
          /\ hist'.save \in {"saved", "failed"}
          /\ err' = err
          /\ pending' = pending
          /\ outcome' = outcome
          /\ sleepData' = sleepData]_vars

\* the record could not be written and the run returned the data of both
\* sleepers
C28_Witness ==
    /\ pc = "done"
    /\ hist.save = "failed"
    /\ outcome = "returned"
    /\ \A s \in SleeperNames : \A f \in Fields : sleepData[s][f] = "v"

\* the label of each metric
LabelOf == [thirtyDayAvg |-> L30, sleepScore |-> LSCORE, allTimeBest |-> LBEST]

\* the dashboard shows labels that each have a number after them, no label
\* twice
LabelledNumbers(d) ==
    /\ \A i \in 1..Len(d.cards) :
           d.cards[i].label # <<>> /\ d.cards[i].number # <<>>
    /\ \A i, j \in 1..Len(d.cards) :
           d.cards[i].label = d.cards[j].label => i = j

\* the cards of the dashboard that show the label of the metric
CardsOf(d, f) == {i \in 1..Len(d.cards) : d.cards[i].label = LabelOf[f]}

\* C29: for a dashboard text of the labels '30-day avg', 'SleepIQ® score' and
\* 'All-time best', each followed across white space by an integer of one to
\* three digits, extractSleepData returns these three integers; and a metric
\* whose label the text does not show is not taken from the number that
\* follows another label: it stays empty.
C29_MetricsFollowTheirLabels ==
    (metricsPc = "done" /\ LabelledNumbers(dashboard)) =>
        /\ ((\A f \in DOMAIN LabelOf : CardsOf(dashboard, f) # {})
              /\ dashboardData # NoDashboardData) =>
               \A f \in DOMAIN LabelOf :
                   \A i \in CardsOf(dashboard, f) :
                       dashboardData[f] = dashboard.cards[i].number
        /\ \A f \in DOMAIN LabelOf :
               CardsOf(dashboard, f) = {} => dashboardData[f] = <<>>

(***************************************************************************)
(* Properties of the submit strategies                                     *)
(***************************************************************************)

EnterFailed ==
    /\ Len(attempted) >= 4
    /\ attempted[4] = "enter"
    /\ "enter" \notin {submitted[i] : i \in 1..Len(submitted)}
    /\ submitPc # "form"

\* C32: when no click strategy found a button and Enter on the password
\* field failed, the direct form submission is executed before performLogin
\* gives up; the failure of Enter does not end the login attempt.
C32_FormSubmissionAfterEnterFails ==
    EnterFailed => "form" \in {attempted[i] : i \in 1..Len(attempted)}

(***************************************************************************)
(* Properties of the redirect polling                                      *)
(***************************************************************************)

C34_TrueOnlyWhenSwitched ==
    selPc = "done" =>
        /\ selResult \in {"true", "false"}
        /\ selResult = "true" => selPage.active = selName
        /\ ~selPage.control \/ ~selPage.option => selResult = "false"

(***************************************************************************)
(* Properties of withRetries                                               *)
(***************************************************************************)

\* the log holds the calls 1..calls in order, with one delay of the given
\* length between two calls and none elsewhere (no delay at all when the
\* length is 0)
CallsAndDelays(log, calls, delay) ==
    IF delay > 0
    THEN /\ Len(log) = 2 * calls - 1
         /\ \A i \in 1..Len(log) :
                log[i] = IF i % 2 = 1 THEN <<"call", (i + 1) \div 2>>
                         ELSE <<"delay", delay>>
    ELSE /\ Len(log) = calls
         /\ \A i \in 1..Len(log) : log[i] = <<"call", i>>

\* C35: with maxAttempts n >= 1 fn is called at most n times, one call
\* after the other; the result of the first call that succeeds is returned
\* and fn is not called again; when n calls failed the error of the n-th
\* is raised; the delay is waited between two calls and not after the
\* last; safeClick without a maxAttempts option gives up after 3 calls.
C35_RetriesUpToMaxAttempts ==
    RetryOptions(retryCall).maxAttempts >= 1 =>
        /\ FnCalls(retryLog) <= RetryOptions(retryCall).maxAttempts
        /\ retryPc = "done" =>
               /\ retryResult.kind \in {"returned", "raised"}
               /\ retryResult.of = FnCalls(retryLog)
               /\ retryResult.kind = "raised" =>
                      FnCalls(retryLog) = RetryOptions(retryCall).maxAttempts
               /\ CallsAndDelays(retryLog, FnCalls(retryLog),
                                 RetryOptions(retryCall).delay)
               /\ /\ retryCall.caller = "safeClick"
                  /\ retryCall.maxAttempts = Undefined
                  /\ retryResult.kind = "raised"
                  => FnCalls(retryLog) = 3

\* safeClick with its defaults gave up after three calls and two delays of
\* 500 ms
C35_Witness ==
    /\ retryPc = "done"
    /\ retryCall = [caller |-> "safeClick", maxAttempts |-> Undefined,
                    delay |-> Undefined]
    /\ retryResult = [kind |-> "raised", of |-> 3]
    /\ retryLog = << <<"call", 1>>, <<"delay", 500>>, <<"call", 2>>,
                     <<"delay", 500>>, <<"call", 3>> >>

\* C39: the statement after the loop of withRetries is never reached:
\* whatever maxAttempts and delay the caller passes, withRetries returns a
\* result of fn or raises an error of fn, and fn is called at least once.
C39_FinalThrowUnreachable ==
    /\ retryPc # "after"
    /\ retryPc = "done" =>
           /\ retryResult.of >= 1
           /\ FnCalls(retryLog) >= 1

(***************************************************************************)
(* Properties of the message flows over the sleepers                       *)
(***************************************************************************)

\* C36: heartRateMsg is read while Heart Rate, the default tab, is the
\* active tab of the biosignals page; it is never read from a page that an
\* earlier step left on the Heart Rate Variability or Breath Rate tab.
C36_HeartRateReadOnDefaultTab ==
    /\ bioPage.default = BioTabs[1]
    /\ bioPc = "scan"
    /\ bioTab = 1
    => bioPage.active = BioTabs[1]

\* C37: the url a message flow navigates to is the base url followed by
\* exactly the route of its detail page, whatever url the flow starts on.
C37_NavigatesToDetailUrl ==
    /\ bioNav.goto # <<>> =>
           bioNav.goto = BASE \o <<"/">> \o S_details_biosignals
    /\ msgNav.goto # <<>> =>
           msgNav.goto = BASE \o <<"/">> \o S_details_sleep_session

\* C38: the clean-up is idempotent: applied to its own result it returns
\* that result, for every text over ordinary characters, spaces,
\* non-breaking spaces and zero-width spaces.
C38_CleanUpIdempotent ==
    Len(textOut) = 2 => textOut[2] = textOut[1]

====
